---- MODULE Spec2Model ----
(***************************************************************************)
(* A model of the devtools-frontend file server: the provider pipeline of  *)
(* pipelines.py, the version providers of versions.py, the file providers  *)
(* of files.py and the conditional upload of storage_helper.py.            *)
(*                                                                         *)
(* Python values are modelled as TLA+ strings: bytes and str contents are  *)
(* strings, and the three values that are no content (None and the two     *)
(* sentinel objects of pipelines.py) are strings that no content equals.   *)
(***************************************************************************)
EXTENDS Integers, Sequences, FiniteSets, TLC

VARIABLES
    pl,            \* the frame of one Pipeline.retrieve call over test providers
    calls,         \* the provider calls that call has made, in order
    local_bucket,  \* the objects of the bucket LOCAL_BUCKET, by name
    version_by_revision, \* per instance: the dict of its LocalMemoryProvider
    request,       \* per instance: the request it serves, or has served last
    previous,      \* per instance: the request it has served before that one
    files_pl,      \* per instance: the frame of the file pipeline's retrieve
    versions_pl,   \* per instance: the frame of the version pipeline's retrieve
    zip,           \* per instance: where a ZipFileProvider.retrieve stands
    log,           \* per instance: the provider calls and uploads of request
    requests,      \* the number of requests made so far
    versions_PIPELINE,  \* one process: the global _PIPELINE of versions.py
    files_PIPELINES,    \* one process: the global _PIPELINES of files.py
    constructed,   \* one process: the Pipeline objects constructed so far
    thread,        \* one process, per thread: where its call stands
    returned       \* one process: what the calls have returned, in order

testvars == <<pl, calls, versions_PIPELINE, files_PIPELINES, constructed,
              thread, returned>>
vars == <<pl, calls, local_bucket, version_by_revision, request, previous,
          files_pl, versions_pl, zip, log, requests, versions_PIPELINE,
          files_PIPELINES, constructed, thread, returned>>

(***************************************************************************)
(* pipelines.py: the sentinels                                             *)
(***************************************************************************)
None == "<None>"
CONTINUE_SEARCH == "<ContinueSearch>"
DOES_NOT_EXIST == "<DoesNotExist>"

(***************************************************************************)
(* pipelines.py: Pipeline.retrieve, as a frame that is stepped once per    *)
(* provider call.  idx is the 0-based loop index of the code; j is the     *)
(* position of the reverse pass over providers[idx::-1].                   *)
(***************************************************************************)
NoFrame ==
    [providers |-> <<>>, params |-> None, pc |-> "idle", idx |-> 0, j |-> 0,
     response |-> None, active_provider |-> None, content |-> None]

\* The early return of an empty pipeline, else the first loop iteration.
Pipeline_call(providers, params) ==
    IF Len(providers) = 0
    THEN [NoFrame EXCEPT !.providers = providers, !.params = params,
                         !.pc = "done"]
    ELSE [NoFrame EXCEPT !.providers = providers, !.params = params,
                         !.pc = "loop", !.active_provider = providers[1]]

\* A mutant of Pipeline_content: DOES_NOT_EXIST is passed on as content.
Pipeline_content_keeps_sentinel(response) ==
    IF response = CONTINUE_SEARCH THEN None ELSE response

\* The content that is handed to process_response and returned.
Pipeline_content(response) ==
    IF response = CONTINUE_SEARCH THEN None
    ELSE IF response = DOES_NOT_EXIST THEN None
    ELSE response

\* The loop has ended: set the content and start the reverse pass at idx.
Pipeline_search_done(f) ==
    [f EXCEPT !.content = Pipeline_content(f.response),
              !.pc = "process", !.j = f.idx]

\* A mutant of Pipeline_loop: the loop does not break at a response that is
\* not CONTINUE_SEARCH and asks the remaining providers as well.
Pipeline_loop_nobreak(f, response) ==
    IF f.idx + 1 < Len(f.providers)
    THEN [f EXCEPT !.response = response, !.idx = f.idx + 1,
                   !.active_provider = f.providers[f.idx + 2]]
    ELSE Pipeline_search_done(
             [f EXCEPT !.response = response,
                       !.active_provider =
                           IF response # CONTINUE_SEARCH
                           THEN f.providers[f.idx + 1] ELSE None])

\* A mutant of Pipeline_loop: the else clause of the loop is missing, so the
\* last provider stays the active provider when every provider continues.
Pipeline_loop_noelse(f, response) ==
    IF response # CONTINUE_SEARCH
    THEN Pipeline_search_done([f EXCEPT !.response = response])
    ELSE IF f.idx + 1 < Len(f.providers)
    THEN [f EXCEPT !.response = response, !.idx = f.idx + 1,
                   !.active_provider = f.providers[f.idx + 2]]
    ELSE Pipeline_search_done([f EXCEPT !.response = response])

\* One iteration of the for/else loop, given what providers[idx].retrieve
\* has returned.
Pipeline_loop(f, response) ==
    IF response # CONTINUE_SEARCH
    THEN Pipeline_search_done([f EXCEPT !.response = response])
    ELSE IF f.idx + 1 < Len(f.providers)
    THEN [f EXCEPT !.response = response, !.idx = f.idx + 1,
                   !.active_provider = f.providers[f.idx + 2]]
    ELSE Pipeline_search_done(
             [f EXCEPT !.response = response, !.active_provider = None])

\* The provider whose process_response the reverse pass calls next.
Pipeline_process_provider(f) == f.providers[f.j + 1]

\* A mutant of Pipeline_process_next: the pass stops after the winner.
Pipeline_process_next_winner_only(f) == [f EXCEPT !.pc = "done"]

\* A mutant of Pipeline_process_next: the reverse pass does not end at the
\* first provider and calls its process_response again.
Pipeline_process_next_stays(f) ==
    IF f.j = 0 THEN f ELSE [f EXCEPT !.j = f.j - 1]

\* After the call of process_response on providers[j]: the next provider of
\* providers[idx::-1], or the return of content.
Pipeline_process_next(f) ==
    IF f.j = 0 THEN [f EXCEPT !.pc = "done"] ELSE [f EXCEPT !.j = f.j - 1]

\* return content (None for the empty pipeline)
Pipeline_return(f) == f.content

(***************************************************************************)
(* Python strings.  TLC evaluates Len, SubSeq and \o on strings, so the    *)
(* string functions of the code are computed character by character.       *)
(***************************************************************************)
Char(s, i) == SubSeq(s, i, i)

DIGITS == {"0", "1", "2", "3", "4", "5", "6", "7", "8", "9"}
HEX_DIGITS == DIGITS \cup {"a", "b", "c", "d", "e", "f"}

\* The regular expression \d*
IsDigits(s) == \A i \in 1..Len(s) : Char(s, i) \in DIGITS

\* s.startswith(prefix) and s.endswith(suffix)
StartsWith(s, prefix) ==
    Len(s) >= Len(prefix) /\ SubSeq(s, 1, Len(prefix)) = prefix
EndsWith(s, suffix) ==
    Len(s) >= Len(suffix)
        /\ SubSeq(s, Len(s) - Len(suffix) + 1, Len(s)) = suffix

\* s.split(sep) for a separator of one character: a list of strings
RECURSIVE SplitFrom(_, _, _)
SplitFrom(s, separators, from) ==
    LET later == {i \in separators : i >= from} IN
    IF later = {} THEN <<SubSeq(s, from, Len(s))>>
    ELSE LET i == CHOOSE i \in later : \A m \in later : i <= m
         IN <<SubSeq(s, from, i - 1)>> \o SplitFrom(s, separators, i + 1)

split(s, sep) == SplitFrom(s, {i \in 1..Len(s) : Char(s, i) = sep}, 1)

\* sep.join(parts)
RECURSIVE join(_, _)
join(sep, parts) ==
    IF Len(parts) = 0 THEN ""
    ELSE IF Len(parts) = 1 THEN parts[1]
    ELSE parts[1] \o sep \o join(sep, Tail(parts))

\* s.strip(chars), chars a set of characters
RECURSIVE lstrip(_, _)
lstrip(s, chars) ==
    IF Len(s) > 0 /\ Char(s, 1) \in chars
    THEN lstrip(SubSeq(s, 2, Len(s)), chars) ELSE s

RECURSIVE rstrip(_, _)
rstrip(s, chars) ==
    IF Len(s) > 0 /\ Char(s, Len(s)) \in chars
    THEN rstrip(SubSeq(s, 1, Len(s) - 1), chars) ELSE s

strip(s, chars) == rstrip(lstrip(s, chars), chars)

\* int(s) for a string of digits (int accepts a trailing newline as well)
RECURSIVE IntOfDigits(_)
IntOfDigits(s) ==
    IF Len(s) = 0 THEN 0
    ELSE LET c == Char(s, Len(s)) IN
         10 * IntOfDigits(SubSeq(s, 1, Len(s) - 1))
             + CHOOSE d \in 0..9 : ToString(d) = c

int(s) == IntOfDigits(rstrip(s, {"\n"}))

\* int(s) raises ValueError: no digits, or another character
int_raises(s) ==
    LET digits == rstrip(s, {"\n"}) IN ~(Len(digits) > 0 /\ IsDigits(digits))

\* str(n) for n >= 0
str(n) == ToString(n)

\* A regular expression's $ matches at the end of the string and before a
\* newline that ends it: the strings that `pattern$` is tried on.
DollarCandidates(s) ==
    {s} \cup (IF EndsWith(s, "\n") THEN {SubSeq(s, 1, Len(s) - 1)} ELSE {})

\* The truth value of a str, bytes or None
Truthy(v) == v # None /\ v # ""

(***************************************************************************)
(* versions.py: validation                                                 *)
(***************************************************************************)
\* VERSION_PATTERN.match(version) is not None, with
\* VERSION_PATTERN = ^[1-9]\d*\.\d*\.[1-9]\d*\.\d*$
VERSION_PATTERN_match(version) ==
    \E s \in DollarCandidates(version) :
        LET parts == split(s, ".") IN
        /\ Len(parts) = 4
        \* [1-9]\d* for the first and the third part, \d* for the others
        /\ \A k \in {1, 3} :
               Len(parts[k]) > 0 /\ Char(parts[k], 1) \in DIGITS \ {"0"}
        /\ \A k \in 1..4 : IsDigits(parts[k])

\* is_valid_version raises ValueError at int(part) for an empty part
is_valid_version_raises(version) ==
    /\ VERSION_PATTERN_match(version)
    /\ \E k \in 1..4 : int_raises(split(version, ".")[k])

is_valid_version(version) ==
    /\ VERSION_PATTERN_match(version)
    /\ ~is_valid_version_raises(version)
    /\ LET parts == split(version, ".") IN
       version = join(".", [k \in 1..4 |-> str(int(parts[k]))])

\* A mutant of is_valid_revision: the length is not checked.
is_valid_revision_any_length(revision, length) ==
    \A i \in 1..Len(revision) : Char(revision, i) \in HEX_DIGITS

\* re.match(r"^[0-9a-f]{length}$", revision) is not None
is_valid_revision(revision, length) ==
    \E s \in DollarCandidates(revision) :
        Len(s) = length /\ \A i \in 1..Len(s) : Char(s, i) \in HEX_DIGITS

\* The default length of is_valid_revision
REVISION_LENGTH == 40
\* The length LegacyM99ShortRevisionProvider passes
SHORT_REVISION_LENGTH == 6

(***************************************************************************)
(* config.py and the path templates of files.py and versions.py            *)
(***************************************************************************)
\* os.getenv("LOCAL_BUCKET"): the name the deployment gives the bucket
LOCAL_BUCKET == "LOCAL_BUCKET"
CHROME_UNSIGNED_BUCKET == "chrome-unsigned"
LEGACY_BUCKET == "chrome-devtools-frontend"
CHROME_UNSIGNED_DT_FRONTEND_ZIP_BASE_DIRS ==
    <<"devtools-frontend/gen/third_party/devtools-frontend-internal/devtools-frontend/front_end/">>
CHROME_UNSIGNED_DT_INTERNAL_ZIP_BASE_DIRS ==
    <<"devtools-frontend/gen/third_party/devtools-frontend-internal/">>
DEVTOOLS_FRONTEND == "devtools-frontend"
DEVTOOLS_INTERNAL == "devtools-internal"
Project == {DEVTOOLS_FRONTEND, DEVTOOLS_INTERNAL}

LAST_LEGACY_MAJOR == 99

\* CHROME_UNSIGNED_ARTIFACT_PATH % patch_version
CHROME_UNSIGNED_ARTIFACT_PATH(version) ==
    "desktop-5c0tCh/" \o version \o "/linux64/devtools-frontend.zip"
LEGACY_M99_REVS_PATH(revision) == "revs/@" \o revision
LEGACY_M99_ZIPS_PATH(zip_file_name) == "zips/" \o zip_file_name \o ".zip"
LEGACY_M99_VERS_PATH(version) == "vers/" \o version
LEGACY_M99_META_PATH(revision) == "meta/@" \o revision
LEGACY_M99_HASH_PATH(file_hash) == "hash/" \o file_hash

\* A mutant of get_local_path: the project suffix is left out of the path.
get_local_path_no_suffix(storage_suffix, revision, filename) ==
    "extracted/" \o revision \o "/" \o filename

\* files.LocalBucketProvider.get_local_path
get_local_path(storage_suffix, revision, filename) ==
    IF storage_suffix = None
    THEN "extracted/" \o revision \o "/" \o filename
    ELSE "extracted/" \o revision \o "-" \o storage_suffix \o "/" \o filename

\* versions.LocalBucketProvider._get_bucket_path
get_bucket_path(revision) == "version_by_revision/" \o revision

(***************************************************************************)
(* storage_helper.py and the object store.  A bucket is a function from    *)
(* the names of its objects to their bytes.                                *)
(***************************************************************************)
\* download_blob: the bytes, or None when the store answers NotFound
download_blob(bucket, blobname) ==
    IF blobname \in DOMAIN bucket THEN bucket[blobname] ELSE None

\* What the store reports with a failed precondition: the error entry that
\* upload_from_string looks for, or another one.
PreconditionErrors ==
    {[reason |-> "conditionNotMet", location |-> "If-Match"],
     [reason |-> "other", location |-> "other"]}

\* Blob.upload_from_string(content, if_generation_match): with
\* if_generation_match = 0 the store creates the object only when there is
\* none, and answers PreconditionFailed otherwise; without a precondition it
\* replaces the object.
Blob_upload_from_string(bucket, blobname, content, if_generation_match) ==
    IF if_generation_match = 0 /\ blobname \in DOMAIN bucket
    THEN [bucket |-> bucket, exception |-> "PreconditionFailed"]
    ELSE [bucket |-> [name \in DOMAIN bucket \cup {blobname} |->
                          IF name = blobname THEN content ELSE bucket[name]],
          exception |-> None]

\* A mutant of upload_from_string: the upload carries no precondition (-1
\* stands for an absent if_generation_match).
upload_from_string_overwrites(bucket, blobname, content, error) ==
    LET r == Blob_upload_from_string(bucket, blobname, content, -1) IN
    [bucket |-> r.bucket, outcome |-> "created"]

\* A mutant of upload_from_string: every PreconditionFailed is re-raised.
upload_from_string_raises(bucket, blobname, content, error) ==
    LET r == Blob_upload_from_string(bucket, blobname, content, 0) IN
    IF r.exception = None
    THEN [bucket |-> r.bucket, outcome |-> "created"]
    ELSE [bucket |-> r.bucket, outcome |-> "raised"]

\* upload_from_string(blob, content); error is the error entry the store
\* reports if the precondition fails.  The outcome is "created", "discarded"
\* (the exception is caught and the function returns) or "raised".
upload_from_string(bucket, blobname, content, error) ==
    LET r == Blob_upload_from_string(bucket, blobname, content, 0) IN
    IF r.exception = None
    THEN [bucket |-> r.bucket, outcome |-> "created"]
    ELSE IF error.reason = "conditionNotMet" /\ error.location = "If-Match"
    THEN [bucket |-> r.bucket, outcome |-> "discarded"]
    ELSE [bucket |-> r.bucket, outcome |-> "raised"]

(***************************************************************************)
(* The backing sources, which no request changes: the chrome-unsigned and  *)
(* the legacy bucket, the archives in them, and what the two remote        *)
(* services know.  The revisions are those of files_test.py.               *)
(***************************************************************************)
\* In chrome-unsigned archives: chromiumdash reports 100.0.1.1, the VERSION
\* file at the revision still says 100.0.1.0.
REVISION_100 == "2b8b78f5838ed0b1c69bb4e51ea0252171854915"
\* A revision of a legacy version, with a pointer file in the legacy bucket.
REVISION_1 == "1b8b78f5838ed0b1c69bb4e51ea0252171854915"
\* A revision that is in no version; the legacy bucket has its manifest.
REVISION_2 == "ab8b78f5838ed0b1c69bb4e51ea0252171854915"
\* A 6-digit revision.
REVISION_6D == "bbb878"

INVALID_VERSION == "100.1.5678"

FILE_A == "a.js"
EMPTY_FILE == "empty.js"

ZipInfo(orig_filename, is_dir, data) ==
    [orig_filename |-> orig_filename, is_dir |-> is_dir, data |-> data]

\* zipfile.ZipFile(bytes).infolist(), by the bytes of the archive
ZipFile_infolist(content) ==
    CASE content = "PK-100.0.1.1" ->
             <<ZipInfo("devtools-frontend/", TRUE, ""),
               ZipInfo(CHROME_UNSIGNED_DT_FRONTEND_ZIP_BASE_DIRS[1]
                       \o FILE_A, FALSE, "A-100.0.1.1"),
               ZipInfo(CHROME_UNSIGNED_DT_INTERNAL_ZIP_BASE_DIRS[1]
                       \o FILE_A, FALSE, "internal-A")>>
      [] content = "PK-100.0.1.0" ->
             <<ZipInfo(CHROME_UNSIGNED_DT_FRONTEND_ZIP_BASE_DIRS[1]
                       \o FILE_A, FALSE, "A-100.0.1.0"),
               ZipInfo(CHROME_UNSIGNED_DT_FRONTEND_ZIP_BASE_DIRS[1]
                       \o EMPTY_FILE, FALSE, "")>>
      [] content = "PK-legacy-1" ->
             <<ZipInfo("images/", TRUE, ""),
               ZipInfo(FILE_A, FALSE, "A-legacy-1")>>
      [] content = "PK-legacy-6d" ->
             <<ZipInfo(FILE_A, FALSE, "A-legacy-6d"),
               ZipInfo(EMPTY_FILE, FALSE, "")>>
      [] OTHER -> <<>>

\* storage.Client().bucket(bucketname), for the two buckets that only serve
RemoteBucket(bucketname) ==
    IF bucketname = CHROME_UNSIGNED_BUCKET
    THEN (CHROME_UNSIGNED_ARTIFACT_PATH("100.0.1.1") :> "PK-100.0.1.1")
         @@ (CHROME_UNSIGNED_ARTIFACT_PATH("100.0.1.0") :> "PK-100.0.1.0")
    ELSE (LEGACY_M99_REVS_PATH(REVISION_1) :> "legacy-1\n")
         @@ (LEGACY_M99_ZIPS_PATH("legacy-1") :> "PK-legacy-1")
         @@ (LEGACY_M99_VERS_PATH("99.0.1.0") :> "legacy-1")
         @@ (LEGACY_M99_REVS_PATH(REVISION_6D) :> "legacy-6d")
         @@ (LEGACY_M99_ZIPS_PATH("legacy-6d") :> "PK-legacy-6d")
         @@ (LEGACY_M99_META_PATH(REVISION_2) :>
                 "911feebc:logo.ico\n220bcaa9:a.js\nf8ab220b:empty.js\n"
                     \o "911feebc:a.js\n")
         @@ (LEGACY_M99_HASH_PATH("220bcaa9") :> "A-hash")

\* requests.get(REPOSITORY_URL % revision, timeout=TIMEOUT): a ReadTimeout,
\* or a response with a status code and a body.  base64 tells whether
\* base64.b64decode accepts the body, utf8 whether the decoded bytes are
\* UTF-8, and text is the body after b64decode(...).decode("utf-8").
RepositoryResponse(status_code, base64, text) ==
    [timeout |-> FALSE, status_code |-> status_code, base64 |-> base64,
     utf8 |-> TRUE, text |-> text]

VERSION_FILE(major, minor, build, patch) ==
    "MAJOR=" \o major \o "\nMINOR=" \o minor \o "\nBUILD=" \o build
        \o "\nPATCH=" \o patch \o "\n"

(***************************************************************************)
(* An exception that leaves a provider call, as the result of the call     *)
(***************************************************************************)
Raise(exception) == "<raise " \o exception \o ">"
IsRaise(result) == StartsWith(result, "<raise ")

(***************************************************************************)
(* versions.py: the version providers.  cache is the version_by_revision   *)
(* dict of one LocalMemoryProvider: a function from the revisions it holds. *)
(***************************************************************************)
LOCAL_MEMORY == "versions.LocalMemoryProvider"
VERSION_BUCKET == "versions.LocalBucketProvider"
CHROMIUM_DASH == "versions.ChromiumDashProvider"
CHROMIUM_REPOSITORY == "versions.ChromiumRepositoryProvider"

\* versions.get_pipeline().providers
\* A mutant of VersionProviders: the first remote service is asked first.
\* A mutant of VersionProviders: the durable cache comes before the
\* in-memory map, so that the reverse pass fills the map first.
VersionProviders_bucket_first ==
    <<VERSION_BUCKET, LOCAL_MEMORY, CHROMIUM_DASH, CHROMIUM_REPOSITORY>>

VersionProviders_remote_first ==
    <<CHROMIUM_DASH, LOCAL_MEMORY, VERSION_BUCKET, CHROMIUM_REPOSITORY>>

VersionProviders ==
    <<LOCAL_MEMORY, VERSION_BUCKET, CHROMIUM_DASH, CHROMIUM_REPOSITORY>>

\* A mutant of LocalMemoryProvider_retrieve: a cached None is no answer.
LocalMemoryProvider_retrieve_continues(cache, revision) ==
    IF revision \in DOMAIN cache /\ Truthy(cache[revision])
    THEN cache[revision] ELSE CONTINUE_SEARCH

\* self.version_by_revision.get(revision, CONTINUE_SEARCH) or DOES_NOT_EXIST
LocalMemoryProvider_retrieve(cache, revision) ==
    LET cached == IF revision \in DOMAIN cache THEN cache[revision]
                  ELSE CONTINUE_SEARCH
    IN IF Truthy(cached) THEN cached ELSE DOES_NOT_EXIST

\* A mutant of LocalMemoryProvider_process_response: the own response is
\* cached again.
LocalMemoryProvider_process_response_caches_own(cache, self, provider, revision, version) ==
    [r \in DOMAIN cache \cup {revision} |->
        IF r = revision THEN version ELSE cache[r]]

\* A mutant of LocalMemoryProvider_process_response: None is not cached.
LocalMemoryProvider_process_response_skips_none(cache, self, provider, revision, version) ==
    IF provider = self \/ version = None THEN cache
    ELSE [r \in DOMAIN cache \cup {revision} |->
             IF r = revision THEN version ELSE cache[r]]

\* The dict after process_response(provider, revision, version)
LocalMemoryProvider_process_response(cache, self, provider, revision, version) ==
    IF provider = self THEN cache
    ELSE [r \in DOMAIN cache \cup {revision} |->
             IF r = revision THEN version ELSE cache[r]]

versions_LocalBucketProvider_retrieve(bucket, revision) ==
    LET blob == download_blob(bucket, get_bucket_path(revision)) IN
    IF blob = None THEN CONTINUE_SEARCH ELSE blob

\* A mutant: the response of the provider itself is uploaded as well.
versions_LocalBucketProvider_uploads_own(self, provider, version) ==
    version # None

\* Whether process_response(provider, revision, version) uploads
\* A mutant: the durable version cache is never written.
versions_LocalBucketProvider_uploads_never(self, provider, version) ==
    FALSE

versions_LocalBucketProvider_uploads(self, provider, version) ==
    ~(provider = self \/ version = None)

ChromiumDashProvider_retrieve(response) ==
    IF response.raises THEN CONTINUE_SEARCH
    ELSE IF response.error # None THEN CONTINUE_SEARCH
    ELSE IF response.earliest = None THEN CONTINUE_SEARCH
    ELSE IF is_valid_version_raises(response.earliest)
    THEN Raise("ValueError")
    ELSE IF ~is_valid_version(response.earliest) THEN CONTINUE_SEARCH
    ELSE response.earliest

\* The value of a line "KEY=digits", or None
VersionFileValue(line, key) ==
    LET value == SubSeq(line, Len(key) + 2, Len(line)) IN
    IF StartsWith(line, key \o "=") /\ Len(value) > 0 /\ IsDigits(value)
    THEN value ELSE None

\* VERSION_FILE_PATTERN without the $: the four groups, or None
MatchesVersionFile(text) ==
    LET lines == split(text, "\n") IN
    IF /\ Len(lines) = 5
       /\ lines[5] = ""
       /\ VersionFileValue(lines[1], "MAJOR") # None
       /\ VersionFileValue(lines[2], "MINOR") # None
       /\ VersionFileValue(lines[3], "BUILD") # None
       /\ VersionFileValue(lines[4], "PATCH") # None
    THEN join(".", <<VersionFileValue(lines[1], "MAJOR"),
                     VersionFileValue(lines[2], "MINOR"),
                     VersionFileValue(lines[3], "BUILD"),
                     VersionFileValue(lines[4], "PATCH")>>)
    ELSE None

\* VERSION_FILE_PATTERN.match(content), joined by "."; None without a match
VERSION_FILE_PATTERN_match(content) ==
    IF MatchesVersionFile(content) # None THEN MatchesVersionFile(content)
    ELSE IF EndsWith(content, "\n")
    THEN MatchesVersionFile(SubSeq(content, 1, Len(content) - 1))
    ELSE None

\* A mutant of ChromiumRepositoryProvider_retrieve: the VERSION file is
\* returned as it was received.
ChromiumRepositoryProvider_retrieve_unparsed(response) ==
    IF response.timeout THEN CONTINUE_SEARCH
    ELSE IF response.status_code = 404 THEN DOES_NOT_EXIST
    ELSE IF ~response.base64 THEN CONTINUE_SEARCH
    ELSE IF ~response.utf8 THEN Raise("UnicodeDecodeError")
    ELSE response.text

ChromiumRepositoryProvider_retrieve(response) ==
    IF response.timeout THEN CONTINUE_SEARCH
    ELSE IF response.status_code = 404 THEN DOES_NOT_EXIST
    ELSE IF ~response.base64 THEN CONTINUE_SEARCH
    \* bytes.decode("utf-8") is in the try that catches binascii.Error only
    ELSE IF ~response.utf8 THEN Raise("UnicodeDecodeError")
    ELSE IF VERSION_FILE_PATTERN_match(response.text) = None
    THEN CONTINUE_SEARCH
    ELSE VERSION_FILE_PATTERN_match(response.text)

(***************************************************************************)
(* files.py: the file providers                                            *)
(***************************************************************************)
FILE_BUCKET_FRONTEND == "files.LocalBucketProvider()"
FILE_BUCKET_INTERNAL == "files.LocalBucketProvider(devtools-internal)"
CHROME_UNSIGNED_FRONTEND == "files.ChromeUnsignedProvider(FRONTEND)"
CHROME_UNSIGNED_INTERNAL == "files.ChromeUnsignedProvider(INTERNAL)"
LEGACY_LONG_REVISION == "files.LegacyM99LongRevisionProvider"
LEGACY_SHORT_REVISION == "files.LegacyM99ShortRevisionProvider"
LEGACY_STATIC_VERSION == "files.LegacyM99StaticVersionProvider"
LEGACY_FILES == "files.LegacyM99FilesProvider"

\* get_revision_pipeline(project).providers
RevisionProviders(project) ==
    IF project = DEVTOOLS_FRONTEND
    THEN <<FILE_BUCKET_FRONTEND, CHROME_UNSIGNED_FRONTEND,
           LEGACY_LONG_REVISION, LEGACY_SHORT_REVISION, LEGACY_FILES>>
    ELSE <<FILE_BUCKET_INTERNAL, CHROME_UNSIGNED_INTERNAL>>

\* A mutant of StaticVersionProviders: the version pipeline caches as well.
StaticVersionProviders_cached ==
    <<FILE_BUCKET_FRONTEND, LEGACY_STATIC_VERSION>>

\* get_version_pipeline().providers
StaticVersionProviders == <<LEGACY_STATIC_VERSION>>

FileBucketProviders == {FILE_BUCKET_FRONTEND, FILE_BUCKET_INTERNAL}
ChromeUnsignedProviders == {CHROME_UNSIGNED_FRONTEND, CHROME_UNSIGNED_INTERNAL}
\* The providers that run ZipFileProvider.retrieve
ZipProviders ==
    ChromeUnsignedProviders
        \cup {LEGACY_LONG_REVISION, LEGACY_SHORT_REVISION,
              LEGACY_STATIC_VERSION}

\* LocalBucketProvider.storage_suffix
storage_suffix(provider) ==
    IF provider = FILE_BUCKET_INTERNAL THEN DEVTOOLS_INTERNAL ELSE None

get_bucketname(provider) ==
    IF provider \in ChromeUnsignedProviders THEN CHROME_UNSIGNED_BUCKET
    ELSE LEGACY_BUCKET

get_zip_base_dirs(provider) ==
    IF provider = CHROME_UNSIGNED_FRONTEND
    THEN CHROME_UNSIGNED_DT_FRONTEND_ZIP_BASE_DIRS
    ELSE IF provider = CHROME_UNSIGNED_INTERNAL
    THEN CHROME_UNSIGNED_DT_INTERNAL_ZIP_BASE_DIRS
    ELSE <<"">>

applies_to_version(provider, major_version) ==
    IF provider \in ChromeUnsignedProviders
    THEN major_version > LAST_LEGACY_MAJOR
    ELSE IF provider = LEGACY_LONG_REVISION
    THEN major_version <= LAST_LEGACY_MAJOR
    ELSE TRUE

\* ZipFileProvider.ZIP_TOC_PATH % (self.get_bucketname(), blobname)
get_zip_toc_path(provider, blobname) ==
    "tocs/" \o get_bucketname(provider) \o "/" \o blobname

files_LocalBucketProvider_retrieve(bucket, self, revision, filename) ==
    LET path == get_local_path(storage_suffix(self), revision, filename)
        blob == download_blob(bucket, path)
    IN IF blob = None THEN CONTINUE_SEARCH ELSE blob

\* A mutant: the response of the provider itself is uploaded as well.
files_LocalBucketProvider_uploads_own(self, provider, content) ==
    content # None

\* A mutant: content is tested for truth, so an empty file is not uploaded.
files_LocalBucketProvider_uploads_skips_empty(self, provider, content) ==
    ~(provider = self) /\ Truthy(content)

\* A mutant: absent content is uploaded as well.
files_LocalBucketProvider_uploads_none(self, provider, content) ==
    ~(provider = self)

\* Whether process_response(provider, params, content) uploads
files_LocalBucketProvider_uploads(self, provider, content) ==
    ~(provider = self) /\ ~(content = None)

\* The first element of the list that is in the set, or None
RECURSIVE FirstIn(_, _)
FirstIn(list, set) ==
    IF Len(list) = 0 THEN None
    ELSE IF Head(list) \in set THEN Head(list)
    ELSE FirstIn(Tail(list), set)

Elements(list) == {list[k] : k \in 1..Len(list)}

\* ZipFileProvider.is_any_file_in_zip: (table of content exists, file)
is_any_file_in_zip(bucket, self, blobname, filenames) ==
    LET toc_blob == download_blob(bucket,
                                  get_zip_toc_path(self, blobname))
    IN IF toc_blob = None THEN [toc_exists |-> FALSE, path |-> None]
       ELSE [toc_exists |-> TRUE,
             path |-> FirstIn(filenames,
                              Elements(split(strip(toc_blob, {"\n"}),
                                             "\n")))]

\* A mutant of ZipFiles: the directories are listed as well.
ZipFiles_with_directories(infolist) ==
    infolist

\* The files of an archive: infolist() without the directories
RECURSIVE ZipFiles(_)
ZipFiles(infolist) ==
    IF Len(infolist) = 0 THEN <<>>
    ELSE IF Head(infolist).is_dir THEN ZipFiles(Tail(infolist))
    ELSE <<Head(infolist)>> \o ZipFiles(Tail(infolist))

\* A mutant of zip_toc: the toc ends after the first file of the archive.
zip_toc_first_file(files) ==
    IF Len(files) = 0 THEN "" ELSE Head(files).orig_filename \o "\n"

\* ZipFileProvider.save_zip_toc: the toc that is uploaded
RECURSIVE zip_toc(_)
zip_toc(files) ==
    IF Len(files) = 0 THEN ""
    ELSE Head(files).orig_filename \o "\n" \o zip_toc(Tail(files))

\* zip_file.read(path): the data of the entry, or KeyError
ZipFile_read(content, path) ==
    LET infolist == ZipFile_infolist(content)
        found == {k \in 1..Len(infolist) : infolist[k].orig_filename = path}
    IN IF found = {} THEN Raise("KeyError")
       ELSE infolist[CHOOSE k \in found : \A m \in found : m <= k].data

\* [base + filename for base in get_zip_base_dirs()]
zip_candidate_paths(self, filename) ==
    [k \in 1..Len(get_zip_base_dirs(self)) |->
        get_zip_base_dirs(self)[k] \o filename]

\* ChromeUnsignedProvider.get_blobnames: the patch versions down to 0
RECURSIVE PatchVersions(_, _)
PatchVersions(prefix, patch) ==
    IF patch < 0 THEN <<>>
    ELSE <<join(".", prefix \o <<str(patch)>>)>>
             \o PatchVersions(prefix, patch - 1)

\* A mutant of get_blobnames: the artifact of the version itself only
ChromeUnsignedProvider_get_blobnames_own_patch(version) ==
    IF version = None THEN <<>>
    ELSE <<CHROME_UNSIGNED_ARTIFACT_PATH(version)>>

ChromeUnsignedProvider_get_blobnames(version) ==
    IF version = None THEN <<>>
    ELSE LET parts == split(version, ".")
             patch_versions ==
                 PatchVersions(SubSeq(parts, 1, 3), int(parts[4]))
         IN [k \in 1..Len(patch_versions) |->
                CHROME_UNSIGNED_ARTIFACT_PATH(patch_versions[k])]

\* LegacyM99ZipProvider.get_blobnames, given get_meta_filename(...)
LegacyM99ZipProvider_get_blobnames(meta_filename) ==
    LET meta_blob == download_blob(RemoteBucket(LEGACY_BUCKET), meta_filename)
    IN IF meta_blob = None THEN <<>>
       ELSE <<LEGACY_M99_ZIPS_PATH(strip(meta_blob, {" ", "\t", "\n"}))>>

get_blobnames(self, revision, version) ==
    IF self \in ChromeUnsignedProviders
    THEN ChromeUnsignedProvider_get_blobnames(version)
    ELSE IF self = LEGACY_STATIC_VERSION
    THEN LegacyM99ZipProvider_get_blobnames(LEGACY_M99_VERS_PATH(version))
    ELSE LegacyM99ZipProvider_get_blobnames(LEGACY_M99_REVS_PATH(revision))

\* What a retrieve does before extract_from_zip_blob: it returns a response,
\* or it goes on with the blobnames (response None).
\* fetched are the objects of the legacy bucket that get_blobnames has
\* downloaded.
ZipStart(response, blobnames) ==
    [response |-> response, blobnames |-> blobnames, fetched |-> <<>>]

\* blobnames = self.get_blobnames(revision, version) and the test of
\* len(blobnames)
ZipStartWith(self, revision, version) ==
    LET blobnames == get_blobnames(self, revision, version)
        start == IF Len(blobnames) = 0 THEN ZipStart(CONTINUE_SEARCH, <<>>)
                 ELSE ZipStart(None, blobnames)
    IN [start EXCEPT
           !.fetched =
               IF self \in ChromeUnsignedProviders THEN <<>>
               ELSE IF self = LEGACY_STATIC_VERSION
               THEN <<LEGACY_M99_VERS_PATH(version)>>
               ELSE <<LEGACY_M99_REVS_PATH(revision)>>]

\* ZipFileProvider.retrieve after get_version_from_revision has returned
ZipFileProvider_retrieve(self, revision, version) ==
    IF version = None THEN ZipStart(CONTINUE_SEARCH, <<>>)
    ELSE IF int_raises(split(version, ".")[1])
    THEN ZipStart(Raise("ValueError"), <<>>)
    ELSE IF ~applies_to_version(self, int(split(version, ".")[1]))
    THEN ZipStart(CONTINUE_SEARCH, <<>>)
    ELSE ZipStartWith(self, revision, version)

\* A mutant of LegacyM99ShortRevisionProvider_retrieve: the revision is not
\* validated.
LegacyM99ShortRevisionProvider_retrieve_unchecked(self, revision) ==
    ZipStartWith(self, revision, None)

LegacyM99ShortRevisionProvider_retrieve(self, revision) ==
    IF ~is_valid_revision(revision, SHORT_REVISION_LENGTH)
    THEN ZipStart(CONTINUE_SEARCH, <<>>)
    ELSE ZipStartWith(self, revision, None)

\* A mutant of LegacyM99StaticVersionProvider_retrieve: the pointer of the
\* version as it is given is read.
LegacyM99StaticVersionProvider_retrieve_any_patch(self, version) ==
    IF is_valid_version_raises(version)
    THEN ZipStart(Raise("ValueError"), <<>>)
    ELSE IF ~is_valid_version(version) THEN ZipStart(CONTINUE_SEARCH, <<>>)
    ELSE ZipStartWith(self, None, version)

LegacyM99StaticVersionProvider_retrieve(self, version) ==
    IF is_valid_version_raises(version)
    THEN ZipStart(Raise("ValueError"), <<>>)
    ELSE IF ~is_valid_version(version) THEN ZipStart(CONTINUE_SEARCH, <<>>)
    ELSE \* re.sub(r"\.\d+$", ".0", version) of a valid version
         LET zero_patch ==
                 join(".", SubSeq(split(version, "."), 1, 3) \o <<"0">>)
         IN ZipStartWith(self, None, zero_patch)

\* One iteration of the loop of extract_from_zip_blob up to the archive: it
\* returns a response ("return"), goes to the next blob ("continue"), or
\* has an archive without toc ("save_zip_toc"); fetched tells whether it
\* has called download_blob for the archive.
ZipStep(kind, response, fetched) ==
    [kind |-> kind, response |-> response, fetched |-> fetched]

\* A mutant of extract_from_zip_blob_loop: the archive is downloaded before
\* the table of content is looked at.
extract_from_zip_blob_loop_fetches_first(bucket, self, blobname, filename) ==
    LET paths == zip_candidate_paths(self, filename)
        toc == is_any_file_in_zip(bucket, self, blobname, paths)
        content == download_blob(RemoteBucket(get_bucketname(self)), blobname)
    IN IF content = None THEN ZipStep("continue", None, TRUE)
       ELSE IF toc.toc_exists /\ toc.path = None
       THEN ZipStep("return", DOES_NOT_EXIST, TRUE)
       ELSE IF ~toc.toc_exists THEN ZipStep("save_zip_toc", None, TRUE)
       ELSE ZipStep("return", ZipFile_read(content, toc.path), TRUE)

\* A mutant of extract_from_zip_blob_loop: an archive that cannot be fetched
\* ends the search of the provider.
extract_from_zip_blob_loop_stops(bucket, self, blobname, filename) ==
    LET paths == zip_candidate_paths(self, filename)
        toc == is_any_file_in_zip(bucket, self, blobname, paths)
        content == download_blob(RemoteBucket(get_bucketname(self)), blobname)
    IN IF toc.toc_exists /\ toc.path = None
       THEN ZipStep("return", DOES_NOT_EXIST, FALSE)
       ELSE IF content = None THEN ZipStep("return", CONTINUE_SEARCH, TRUE)
       ELSE IF ~toc.toc_exists THEN ZipStep("save_zip_toc", None, TRUE)
       ELSE ZipStep("return", ZipFile_read(content, toc.path), TRUE)

\* A mutant of extract_from_zip_blob_loop: a table of content without the
\* file sends the search to the next candidate.
extract_from_zip_blob_loop_next_on_miss(bucket, self, blobname, filename) ==
    LET paths == zip_candidate_paths(self, filename)
        toc == is_any_file_in_zip(bucket, self, blobname, paths)
        content == download_blob(RemoteBucket(get_bucketname(self)), blobname)
    IN IF toc.toc_exists /\ toc.path = None
       THEN ZipStep("continue", None, FALSE)
       ELSE IF content = None THEN ZipStep("continue", None, TRUE)
       ELSE IF ~toc.toc_exists THEN ZipStep("save_zip_toc", None, TRUE)
       ELSE ZipStep("return", ZipFile_read(content, toc.path), TRUE)

extract_from_zip_blob_loop(bucket, self, blobname, filename) ==
    LET paths == zip_candidate_paths(self, filename)
        toc == is_any_file_in_zip(bucket, self, blobname, paths)
        content == download_blob(RemoteBucket(get_bucketname(self)), blobname)
    IN IF toc.toc_exists /\ toc.path = None
       THEN ZipStep("return", DOES_NOT_EXIST, FALSE)
       ELSE IF content = None THEN ZipStep("continue", None, TRUE)
       ELSE IF ~toc.toc_exists THEN ZipStep("save_zip_toc", None, TRUE)
       ELSE ZipStep("return", ZipFile_read(content, toc.path), TRUE)

\* A mutant of find_file_hash: the last line that names the file decides.
RECURSIVE find_file_hash_last(_, _)
find_file_hash_last(hash_entries, name) ==
    IF Len(hash_entries) = 0 THEN None
    ELSE LET entry == hash_entries[Len(hash_entries)]
             colons == {i \in 1..Len(entry) : Char(entry, i) = ":"}
             colon == IF colons = {} THEN 0
                      ELSE CHOOSE i \in colons : \A m \in colons : i <= m
         IN IF colon = 0 THEN Raise("ValueError")
            ELSE IF SubSeq(entry, colon + 1, Len(entry)) = name
            THEN SubSeq(entry, 1, colon - 1)
            ELSE find_file_hash_last(SubSeq(hash_entries, 1,
                                            Len(hash_entries) - 1), name)

\* The loop over hash_entries: the hash of the file, None, or ValueError
RECURSIVE find_file_hash(_, _)
find_file_hash(hash_entries, name) ==
    IF Len(hash_entries) = 0 THEN None
    ELSE LET entry == Head(hash_entries)
             \* entry.split(":", maxsplit=1) splits at the first colon
             colons == {i \in 1..Len(entry) : Char(entry, i) = ":"}
             colon == IF colons = {} THEN 0
                      ELSE CHOOSE i \in colons : \A m \in colons : i <= m
         IN IF colon = 0 THEN Raise("ValueError")
            ELSE IF SubSeq(entry, colon + 1, Len(entry)) = name
            THEN SubSeq(entry, 1, colon - 1)
            ELSE find_file_hash(Tail(hash_entries), name)

\* A mutant of LegacyM99FilesProvider_retrieve: a manifest without the file
\* is a confirmed absence.
LegacyM99FilesProvider_retrieve_terminal(revision, name) ==
    LET bucket == RemoteBucket(LEGACY_BUCKET)
        meta_blob == download_blob(bucket, LEGACY_M99_META_PATH(revision))
        file_hash == find_file_hash(split(strip(meta_blob, {"\n"}), "\n"),
                                    name)
        hash_blob == download_blob(bucket, LEGACY_M99_HASH_PATH(file_hash))
    IN IF meta_blob = None THEN CONTINUE_SEARCH
       ELSE IF file_hash = None THEN DOES_NOT_EXIST
       ELSE IF IsRaise(file_hash) THEN file_hash
       ELSE IF hash_blob = None THEN CONTINUE_SEARCH
       ELSE hash_blob

LegacyM99FilesProvider_retrieve(revision, name) ==
    LET bucket == RemoteBucket(LEGACY_BUCKET)
        meta_blob == download_blob(bucket, LEGACY_M99_META_PATH(revision))
        file_hash == find_file_hash(split(strip(meta_blob, {"\n"}), "\n"),
                                    name)
        hash_blob == download_blob(bucket, LEGACY_M99_HASH_PATH(file_hash))
    IN IF meta_blob = None THEN CONTINUE_SEARCH
       ELSE IF file_hash = None THEN CONTINUE_SEARCH
       ELSE IF IsRaise(file_hash) THEN file_hash
       ELSE IF hash_blob = None THEN CONTINUE_SEARCH
       ELSE hash_blob

(***************************************************************************)
(* The serving instances.  Each instance is one process: it has its own    *)
(* pipelines and its own LocalMemoryProvider, and it serves one request at *)
(* a time; the instances share the bucket LOCAL_BUCKET, which starts       *)
(* empty.  A request is a call of get_version_from_revision,               *)
(* get_file_from_revision or get_file_from_version.  Every access of a     *)
(* provider to the bucket is a step of its own, so the requests of the     *)
(* instances interleave between any two accesses.                          *)
(***************************************************************************)
Instances == {"i1", "i2"}
FIRST_INSTANCE == "i1"

\* The requests made in one behaviour
MaxRequests == 2

\* The threads of one process that call for a pipeline, and the calls they
\* make in one behaviour
MaxThreads == 2
MaxCalls == 3

\* What the requests ask for
Revisions ==
    \* and "HEAD", which is no revision at all
    {REVISION_100, REVISION_1, REVISION_2, REVISION_6D, "HEAD"}
\* and a file that no archive and no manifest has
Filenames == {FILE_A, EMPTY_FILE, "missing.js"}

GET_VERSION_FROM_REVISION == "get_version_from_revision"
GET_FILE_FROM_REVISION == "get_file_from_revision"
GET_FILE_FROM_VERSION == "get_file_from_version"

\* A request: the function and its arguments (key is the revision or the
\* version), how far it is ("idle" before the first request, "running",
\* "returned" or "raised"), what it returned or raised, and the
\* active_provider of its pipeline at the return.
Request(fn, project, key, filename) ==
    [fn |-> fn, project |-> project, key |-> key, filename |-> filename,
     status |-> "running", ret |-> None, winner |-> None]

Returned(r, ret, winner) ==
    [r EXCEPT !.status = "returned", !.ret = ret, !.winner = winner]

Raised(r, exception) ==
    [r EXCEPT !.status = "raised", !.ret = exception]

\* blobnames[k] is the blob of the current iteration of the loop of
\* extract_from_zip_blob.
NoZip == [pc |-> "idle", blobnames |-> <<>>, k |-> 0]

\* The record of a provider call: the provider at index idx of the pipeline
\* and what it was called with, and for retrieve what it returned.
RetrieveCall(idx, provider, params, result) ==
    [op |-> "retrieve", idx |-> idx, provider |-> provider, winner |-> None,
     params |-> params, content |-> None, result |-> result]

ProcessResponseCall(idx, provider, winner, params, content) ==
    [op |-> "process_response", idx |-> idx, provider |-> provider,
     winner |-> winner, params |-> params, content |-> content,
     result |-> None]

\* The record of a call of upload_from_string by a provider
\* with its outcome and, unless it created the object, what the store
\* reported
UploadCall(provider, path, content, outcome, error) ==
    [op |-> "upload", idx |-> 0, provider |-> provider, winner |-> None,
     params |-> path, content |-> content, result |-> outcome,
     reason |-> IF outcome = "created" THEN None ELSE error.reason,
     location |-> IF outcome = "created" THEN None ELSE error.location]

\* The record of a call of download_blob(bucket, blobname) by a provider:
\* the bucket, the name of the object, and the bytes or None
DownloadCall(provider, bucketname, blobname, blob) ==
    [op |-> "download", idx |-> 0, provider |-> provider, winner |-> None,
     params |-> blobname, content |-> None, result |-> blob,
     bucket |-> bucketname]

Init ==
    /\ pl = NoFrame
    /\ calls = <<>>
    /\ local_bucket = [name \in {} |-> ""]
    /\ version_by_revision = [i \in Instances |-> [revision \in {} |-> None]]
    /\ request = [i \in Instances |->
                      [Request(None, None, None, None)
                          EXCEPT !.status = "idle"]]
    /\ previous = request
    /\ files_pl = [i \in Instances |-> NoFrame]
    /\ versions_pl = [i \in Instances |-> NoFrame]
    /\ zip = [i \in Instances |-> NoZip]
    /\ log = [i \in Instances |-> <<>>]
    /\ requests = 0
    /\ versions_PIPELINE = 0
    /\ files_PIPELINES = [key \in {} |-> 0]
    /\ constructed = <<>>
    /\ thread = [t \in 1..MaxThreads |-> [pc |-> "idle", key |-> None]]
    /\ returned = <<>>

\* The instance takes the next request.  The requests of one behaviour ask
\* for the same revision or for versions of the same build (they differ in
\* the patch number at most), and those for a file for the same file: they
\* meet at the same objects.
Accept(i, r) ==
    /\ request[i].status # "running"
    /\ requests < MaxRequests
    /\ \A j \in Instances : \A a \in {request[j], previous[j]} :
           a.status # "idle" =>
               /\ \/ a.key = r.key
                  \/ /\ is_valid_version(a.key) /\ is_valid_version(r.key)
                     /\ SubSeq(split(a.key, "."), 1, 3)
                            = SubSeq(split(r.key, "."), 1, 3)
               /\ a.filename = None \/ r.filename = None
                      \/ a.filename = r.filename
    /\ requests' = requests + 1
    /\ previous' = [previous EXCEPT ![i] = request[i]]
    /\ request' = [request EXCEPT ![i] = r]
    /\ log' = [log EXCEPT ![i] = <<>>]

\* An exception leaves the request: there is no except clause between the
\* provider and the caller of the request.
Propagate(i, exception) ==
    /\ request' = [request EXCEPT ![i] = Raised(@, exception)]
    /\ files_pl' = [files_pl EXCEPT ![i] = NoFrame]
    /\ versions_pl' = [versions_pl EXCEPT ![i] = NoFrame]
    /\ zip' = [zip EXCEPT ![i] = NoZip]

(***************************************************************************)
(* versions.py: get_version_from_revision and the steps of its pipeline    *)
(***************************************************************************)
\* get_version_from_revision(revision) as a request
Call_get_version_from_revision(i) ==
    /\ \E revision \in Revisions :
           LET r == Request(GET_VERSION_FROM_REVISION, None, revision, None)
           IN IF ~is_valid_revision(revision, REVISION_LENGTH)
              THEN /\ Accept(i, Returned(r, None, None))
                   /\ UNCHANGED versions_pl
              ELSE /\ Accept(i, r)
                   /\ versions_pl' =
                          [versions_pl EXCEPT
                              ![i] = Pipeline_call(VersionProviders, revision)]
    /\ UNCHANGED <<testvars, local_bucket, version_by_revision, files_pl, zip>>

\* The version pipeline of the instance is about to call retrieve on this
\* provider.
VersionRetrieves(i, provider) ==
    /\ versions_pl[i].pc = "loop"
    /\ versions_pl[i].active_provider = provider

\* provider.retrieve(revision) has returned response, or has raised.
\* downloads are the calls of download_blob that the retrieve has made.
VersionRetrieved(i, downloads, response) ==
    LET f == versions_pl[i] IN
    /\ log' = [log EXCEPT
                  ![i] = @ \o downloads
                           \o <<RetrieveCall(f.idx, f.active_provider,
                                             f.params, response)>>]
    /\ IF IsRaise(response)
       THEN Propagate(i, response)
       ELSE /\ versions_pl' =
                   [versions_pl EXCEPT ![i] = Pipeline_loop(f, response)]
            /\ UNCHANGED <<request, files_pl, zip>>
    /\ UNCHANGED <<testvars, local_bucket, version_by_revision, previous,
                   requests>>

LocalMemoryProviderRetrieve(i) ==
    /\ VersionRetrieves(i, LOCAL_MEMORY)
    /\ VersionRetrieved(i, <<>>,
           LocalMemoryProvider_retrieve(version_by_revision[i],
                                        versions_pl[i].params))

VersionBucketRetrieve(i) ==
    /\ VersionRetrieves(i, VERSION_BUCKET)
    /\ VersionRetrieved(i,
           <<DownloadCall(VERSION_BUCKET, LOCAL_BUCKET,
                          get_bucket_path(versions_pl[i].params),
                          download_blob(
                              local_bucket,
                              get_bucket_path(versions_pl[i].params)))>>,
           versions_LocalBucketProvider_retrieve(local_bucket,
                                                 versions_pl[i].params))

ChromiumDashProviderRetrieve(i) ==
    /\ VersionRetrieves(i, CHROMIUM_DASH)
    /\ \E response \in
              {[raises |-> TRUE, error |-> None, earliest |-> None],
               IF versions_pl[i].params = REVISION_100
               THEN [raises |-> FALSE, error |-> None,
                     earliest |-> "100.0.1.1"]
               ELSE [raises |-> FALSE, error |-> "Commit not found.",
                     earliest |-> None]} :
           VersionRetrieved(i, <<>>,
                            ChromiumDashProvider_retrieve(response))

ChromiumRepositoryProviderRetrieve(i) ==
    /\ VersionRetrieves(i, CHROMIUM_REPOSITORY)
    /\ \E response \in
              {[RepositoryResponse(0, FALSE, "") EXCEPT !.timeout = TRUE],
               IF versions_pl[i].params = REVISION_100
               THEN RepositoryResponse(200, TRUE,
                                       VERSION_FILE("100", "0", "1", "0"))
               ELSE IF versions_pl[i].params = REVISION_1
               THEN RepositoryResponse(200, TRUE,
                                       VERSION_FILE("99", "0", "1", "3"))
               \* a revision of the first year of the repository, when
               \* chrome/VERSION said MAJOR=0
               ELSE IF versions_pl[i].params
                           = "0b8b78f5838ed0b1c69bb4e51ea0252171854915"
               THEN RepositoryResponse(200, TRUE,
                                       VERSION_FILE("0", "2", "149", "27"))
               ELSE RepositoryResponse(404, FALSE, "")} :
           VersionRetrieved(i, <<>>,
                            ChromiumRepositoryProvider_retrieve(response))

\* provider.process_response(active_provider, revision, content) of the
\* reverse pass of the version pipeline
VersionProcessResponse(i) ==
    LET f == versions_pl[i]
        self == Pipeline_process_provider(f)
        call == ProcessResponseCall(f.j, self, f.active_provider, f.params,
                                    f.content)
        next == [versions_pl EXCEPT ![i] = Pipeline_process_next(f)]
    IN
    /\ f.pc = "process"
    /\ IF self = LOCAL_MEMORY
       THEN /\ version_by_revision' =
                   [version_by_revision EXCEPT
                       ![i] = LocalMemoryProvider_process_response(
                                  @, self, f.active_provider, f.params,
                                  f.content)]
            /\ versions_pl' = next
            /\ log' = [log EXCEPT ![i] = Append(@, call)]
            /\ UNCHANGED <<local_bucket, request, files_pl, zip>>
       ELSE IF self = VERSION_BUCKET
                   /\ versions_LocalBucketProvider_uploads(
                          self, f.active_provider, f.content)
       THEN \E error \in PreconditionErrors :
                LET path == get_bucket_path(f.params)
                    up == upload_from_string(local_bucket, path, f.content,
                                             error)
                IN /\ local_bucket' = up.bucket
                   /\ log' = [log EXCEPT ![i] = @ \o
                                 <<call, UploadCall(self, path, f.content,
                                                    up.outcome, error)>>]
                   /\ IF up.outcome = "raised"
                      THEN Propagate(i, Raise("PreconditionFailed"))
                      ELSE /\ versions_pl' = next
                           /\ UNCHANGED <<request, files_pl, zip>>
                   /\ UNCHANGED version_by_revision
       ELSE /\ versions_pl' = next
            /\ log' = [log EXCEPT ![i] = Append(@, call)]
            /\ UNCHANGED <<local_bucket, version_by_revision, request,
                           files_pl, zip>>
    /\ UNCHANGED <<testvars, previous, requests>>

\* get_version_from_revision returns what the pipeline returns.
Return_get_version_from_revision(i) ==
    /\ request[i].fn = GET_VERSION_FROM_REVISION
    /\ request[i].status = "running"
    /\ versions_pl[i].pc = "done"
    /\ request' = [request EXCEPT
                      ![i] = Returned(@, Pipeline_return(versions_pl[i]),
                                      versions_pl[i].active_provider)]
    /\ versions_pl' = [versions_pl EXCEPT ![i] = NoFrame]
    /\ UNCHANGED <<testvars, local_bucket, version_by_revision, previous,
                   files_pl, zip, log, requests>>

(***************************************************************************)
(* files.py: get_file_from_revision, get_file_from_version and the steps   *)
(* of their pipelines                                                      *)
(***************************************************************************)
Call_get_file_from_revision(i) ==
    /\ \E revision \in Revisions, filename \in Filenames,
          project \in Project :
           /\ Accept(i, Request(GET_FILE_FROM_REVISION, project, revision,
                                filename))
           /\ files_pl' =
                  [files_pl EXCEPT
                      ![i] = Pipeline_call(RevisionProviders(project),
                                           <<revision, filename>>)]
    /\ UNCHANGED <<testvars, local_bucket, version_by_revision, versions_pl,
                   zip>>

Call_get_file_from_version(i) ==
    \* two versions of a build that has a pointer file, a version of a build
    \* without one, a string of three numbers, and "1..1.", which matches
    \* VERSION_PATTERN and has parts that are no integers
    /\ \E version \in {"99.0.1.3", "99.0.1.0", "98.0.1.2", INVALID_VERSION,
                        "1..1."},
          filename \in Filenames :
           /\ Accept(i, Request(GET_FILE_FROM_VERSION, None, version,
                                filename))
           /\ files_pl' =
                  [files_pl EXCEPT
                      ![i] = Pipeline_call(StaticVersionProviders,
                                           <<version, filename>>)]
    /\ UNCHANGED <<testvars, local_bucket, version_by_revision, versions_pl,
                   zip>>

\* The file pipeline of the instance is about to call retrieve on a
\* provider of this set.
FileRetrieves(i, providers) ==
    /\ files_pl[i].pc = "loop"
    /\ zip[i].pc = "idle"
    /\ files_pl[i].active_provider \in providers

\* The retrieve of the active provider has returned response, or has raised.
\* downloads are the calls of download_blob that the retrieve has made
\* since the last step.
FileRetrieved(i, downloads, response) ==
    LET f == files_pl[i] IN
    /\ log' = [log EXCEPT
                  ![i] = @ \o downloads
                           \o <<RetrieveCall(f.idx, f.active_provider,
                                             f.params, response)>>]
    /\ IF IsRaise(response)
       THEN Propagate(i, response)
       ELSE /\ files_pl' = [files_pl EXCEPT ![i] = Pipeline_loop(f, response)]
            /\ zip' = [zip EXCEPT ![i] = NoZip]
            /\ UNCHANGED <<request, versions_pl>>

\* The calls of download_blob in get_blobnames
StartDownloads(self, start) ==
    [k \in 1..Len(start.fetched) |->
        DownloadCall(self, LEGACY_BUCKET, start.fetched[k],
                     download_blob(RemoteBucket(LEGACY_BUCKET),
                                   start.fetched[k]))]

\* The retrieve of the active provider goes on to extract_from_zip_blob, or
\* has returned.
ZipStarted(i, start) ==
    LET downloads == StartDownloads(files_pl[i].active_provider, start) IN
    IF start.response = None
    THEN /\ zip' = [zip EXCEPT ![i] = [pc |-> "extract",
                                       blobnames |-> start.blobnames,
                                       k |-> 1]]
         /\ log' = [log EXCEPT ![i] = @ \o downloads]
         /\ UNCHANGED <<request, files_pl, versions_pl>>
    ELSE FileRetrieved(i, downloads, start.response)

files_LocalBucketProviderRetrieve(i) ==
    /\ FileRetrieves(i, FileBucketProviders)
    /\ LET self == files_pl[i].active_provider
           path == get_local_path(storage_suffix(self), files_pl[i].params[1],
                                  files_pl[i].params[2])
       IN FileRetrieved(i,
              <<DownloadCall(self, LOCAL_BUCKET, path,
                             download_blob(local_bucket, path))>>,
              files_LocalBucketProvider_retrieve(
                  local_bucket, self, files_pl[i].params[1],
                  files_pl[i].params[2]))
    /\ UNCHANGED <<testvars, local_bucket, version_by_revision, previous,
                   requests>>

\* ZipFileProvider.retrieve up to get_version_from_revision(revision), which
\* returns None at once for an invalid revision and calls the version
\* pipeline otherwise.
ZipFileProviderRetrieve(i) ==
    /\ FileRetrieves(i, ChromeUnsignedProviders \cup {LEGACY_LONG_REVISION})
    /\ IF ~is_valid_revision(files_pl[i].params[1], REVISION_LENGTH)
       THEN ZipStarted(i, ZipFileProvider_retrieve(
                              files_pl[i].active_provider,
                              files_pl[i].params[1], None))
       ELSE /\ versions_pl' =
                   [versions_pl EXCEPT
                       ![i] = Pipeline_call(VersionProviders,
                                            files_pl[i].params[1])]
            /\ zip' = [zip EXCEPT ![i] = [NoZip EXCEPT !.pc = "version"]]
            /\ UNCHANGED <<request, files_pl, log>>
    /\ UNCHANGED <<testvars, local_bucket, version_by_revision, previous,
                   requests>>

\* ZipFileProvider.retrieve from the return of get_version_from_revision
ZipFileProviderVersion(i) ==
    /\ zip[i].pc = "version"
    /\ versions_pl[i].pc = "done"
    /\ versions_pl' = [versions_pl EXCEPT ![i] = NoFrame]
    /\ LET start == ZipFileProvider_retrieve(
                        files_pl[i].active_provider, files_pl[i].params[1],
                        Pipeline_return(versions_pl[i]))
           downloads == StartDownloads(files_pl[i].active_provider, start)
       IN IF start.response = None
          THEN /\ zip' = [zip EXCEPT ![i] = [pc |-> "extract",
                                             blobnames |-> start.blobnames,
                                             k |-> 1]]
               /\ log' = [log EXCEPT ![i] = @ \o downloads]
               /\ UNCHANGED <<request, files_pl>>
          ELSE /\ log' = [log EXCEPT
                             ![i] = @ \o downloads
                                      \o <<RetrieveCall(
                                               files_pl[i].idx,
                                               files_pl[i].active_provider,
                                               files_pl[i].params,
                                               start.response)>>]
               /\ zip' = [zip EXCEPT ![i] = NoZip]
               /\ IF IsRaise(start.response)
                  THEN /\ request' = [request EXCEPT
                                         ![i] = Raised(@, start.response)]
                       /\ files_pl' = [files_pl EXCEPT ![i] = NoFrame]
                  ELSE /\ files_pl' =
                              [files_pl EXCEPT
                                  ![i] = Pipeline_loop(@, start.response)]
                       /\ UNCHANGED request
    /\ UNCHANGED <<testvars, local_bucket, version_by_revision, previous,
                   requests>>

LegacyM99ShortRevisionProviderRetrieve(i) ==
    /\ FileRetrieves(i, {LEGACY_SHORT_REVISION})
    /\ ZipStarted(i, LegacyM99ShortRevisionProvider_retrieve(
                         files_pl[i].active_provider, files_pl[i].params[1]))
    /\ UNCHANGED <<testvars, local_bucket, version_by_revision, previous,
                   requests>>

LegacyM99StaticVersionProviderRetrieve(i) ==
    /\ FileRetrieves(i, {LEGACY_STATIC_VERSION})
    /\ ZipStarted(i, LegacyM99StaticVersionProvider_retrieve(
                         files_pl[i].active_provider, files_pl[i].params[1]))
    /\ UNCHANGED <<testvars, local_bucket, version_by_revision, previous,
                   requests>>

LegacyM99FilesProviderRetrieve(i) ==
    /\ FileRetrieves(i, {LEGACY_FILES})
    /\ LET bucket == RemoteBucket(LEGACY_BUCKET)
           meta == LEGACY_M99_META_PATH(files_pl[i].params[1])
           meta_blob == download_blob(bucket, meta)
           file_hash == find_file_hash(split(strip(meta_blob, {"\n"}), "\n"),
                                       files_pl[i].params[2])
           hash == LEGACY_M99_HASH_PATH(file_hash)
       IN FileRetrieved(i,
              <<DownloadCall(LEGACY_FILES, LEGACY_BUCKET, meta, meta_blob)>>
                  \o IF meta_blob = None \/ file_hash = None
                         \/ IsRaise(file_hash)
                     THEN <<>>
                     ELSE <<DownloadCall(LEGACY_FILES, LEGACY_BUCKET, hash,
                                         download_blob(bucket, hash))>>,
              LegacyM99FilesProvider_retrieve(files_pl[i].params[1],
                                              files_pl[i].params[2]))
    /\ UNCHANGED <<testvars, local_bucket, version_by_revision, previous,
                   requests>>

\* One iteration of the loop of extract_from_zip_blob: the read of the toc
\* and the download of the archive
ZipFileProviderExtract(i) ==
    /\ zip[i].pc = "extract"
    /\ IF Len(zip[i].blobnames) = 0
       THEN \* the loop has no iteration
            FileRetrieved(i, <<>>, CONTINUE_SEARCH)
       ELSE
       LET self == files_pl[i].active_provider
           blobname == zip[i].blobnames[zip[i].k]
           step == extract_from_zip_blob_loop(local_bucket, self, blobname,
                                              files_pl[i].params[2])
           toc_path == get_zip_toc_path(self, blobname)
           downloads ==
               <<DownloadCall(self, LOCAL_BUCKET, toc_path,
                              download_blob(local_bucket, toc_path))>>
                   \o IF ~step.fetched THEN <<>>
                      ELSE <<DownloadCall(
                                 self, get_bucketname(self), blobname,
                                 download_blob(
                                     RemoteBucket(get_bucketname(self)),
                                     blobname))>>
       IN IF step.kind = "return"
          THEN FileRetrieved(i, downloads, step.response)
          ELSE IF step.kind = "save_zip_toc"
          THEN /\ zip' = [zip EXCEPT ![i].pc = "save_zip_toc"]
               /\ log' = [log EXCEPT ![i] = @ \o downloads]
               /\ UNCHANGED <<request, files_pl, versions_pl>>
          ELSE IF zip[i].k < Len(zip[i].blobnames)
          THEN /\ zip' = [zip EXCEPT ![i].k = @ + 1]
               /\ log' = [log EXCEPT ![i] = @ \o downloads]
               /\ UNCHANGED <<request, files_pl, versions_pl>>
          ELSE FileRetrieved(i, downloads, CONTINUE_SEARCH)
    /\ UNCHANGED <<testvars, local_bucket, version_by_revision, previous,
                   requests>>

\* save_zip_toc and the rest of the iteration
ZipFileProviderSaveToc(i) ==
    /\ zip[i].pc = "save_zip_toc"
    /\ \E error \in PreconditionErrors :
           LET f == files_pl[i]
               self == f.active_provider
               blobname == zip[i].blobnames[zip[i].k]
               archive == download_blob(RemoteBucket(get_bucketname(self)),
                                        blobname)
               toc == zip_toc(ZipFiles(ZipFile_infolist(archive)))
               path == get_zip_toc_path(self, blobname)
               up == upload_from_string(local_bucket, path, toc, error)
               \* the rest of the iteration, save_zip_toc having returned
               \* paths_in_zip
               files == ZipFiles(ZipFile_infolist(archive))
               found == FirstIn(zip_candidate_paths(self, f.params[2]),
                                {files[k].orig_filename :
                                     k \in 1..Len(files)})
               response ==
                   IF up.outcome = "raised" THEN Raise("PreconditionFailed")
                   ELSE IF found = None THEN DOES_NOT_EXIST
                   ELSE ZipFile_read(archive, found)
           IN /\ local_bucket' = up.bucket
              /\ log' = [log EXCEPT ![i] = @ \o
                            <<UploadCall(self, path, toc, up.outcome, error),
                              RetrieveCall(f.idx, self, f.params, response)>>]
              /\ IF IsRaise(response)
                 THEN Propagate(i, response)
                 ELSE /\ files_pl' =
                             [files_pl EXCEPT ![i] = Pipeline_loop(f, response)]
                      /\ zip' = [zip EXCEPT ![i] = NoZip]
                      /\ UNCHANGED <<request, versions_pl>>
    /\ UNCHANGED <<testvars, version_by_revision, previous, requests>>

\* provider.process_response(active_provider, params, content) of the
\* reverse pass of the file pipeline
FileProcessResponse(i) ==
    LET f == files_pl[i]
        self == Pipeline_process_provider(f)
        call == ProcessResponseCall(f.j, self, f.active_provider, f.params,
                                    f.content)
    IN
    /\ f.pc = "process"
    /\ IF self \in FileBucketProviders
              /\ files_LocalBucketProvider_uploads(self, f.active_provider,
                                                   f.content)
       THEN \E error \in PreconditionErrors :
                LET path == get_local_path(storage_suffix(self), f.params[1],
                                           f.params[2])
                    up == upload_from_string(local_bucket, path, f.content,
                                             error)
                IN /\ local_bucket' = up.bucket
                   /\ log' = [log EXCEPT ![i] = @ \o
                                 <<call, UploadCall(self, path, f.content,
                                                    up.outcome, error)>>]
                   /\ IF up.outcome = "raised"
                      THEN Propagate(i, Raise("PreconditionFailed"))
                      ELSE /\ files_pl' =
                                  [files_pl EXCEPT
                                      ![i] = Pipeline_process_next(f)]
                           /\ UNCHANGED <<request, versions_pl, zip>>
       ELSE /\ files_pl' = [files_pl EXCEPT ![i] = Pipeline_process_next(f)]
            /\ log' = [log EXCEPT ![i] = Append(@, call)]
            /\ UNCHANGED <<local_bucket, request, versions_pl, zip>>
    /\ UNCHANGED <<testvars, version_by_revision, previous, requests>>

\* get_file_from_revision and get_file_from_version return what the pipeline
\* returns.
Return_get_file(i) ==
    /\ request[i].fn \in {GET_FILE_FROM_REVISION, GET_FILE_FROM_VERSION}
    /\ request[i].status = "running"
    /\ files_pl[i].pc = "done"
    /\ request' = [request EXCEPT
                      ![i] = Returned(@, Pipeline_return(files_pl[i]),
                                      files_pl[i].active_provider)]
    /\ files_pl' = [files_pl EXCEPT ![i] = NoFrame]
    /\ UNCHANGED <<testvars, local_bucket, version_by_revision, previous,
                   versions_pl, zip, log, requests>>

\* One step of one instance
Serve(i) ==
    \/ Call_get_version_from_revision(i)
    \/ LocalMemoryProviderRetrieve(i)
    \/ VersionBucketRetrieve(i)
    \/ ChromiumDashProviderRetrieve(i)
    \/ ChromiumRepositoryProviderRetrieve(i)
    \/ VersionProcessResponse(i)
    \/ Return_get_version_from_revision(i)
    \/ Call_get_file_from_revision(i)
    \/ Call_get_file_from_version(i)
    \/ files_LocalBucketProviderRetrieve(i)
    \/ ZipFileProviderRetrieve(i)
    \/ ZipFileProviderVersion(i)
    \/ LegacyM99ShortRevisionProviderRetrieve(i)
    \/ LegacyM99StaticVersionProviderRetrieve(i)
    \/ LegacyM99FilesProviderRetrieve(i)
    \/ ZipFileProviderExtract(i)
    \/ ZipFileProviderSaveToc(i)
    \/ FileProcessResponse(i)
    \/ Return_get_file(i)

Next == \E i \in Instances : Serve(i)

\* Any number of instances, their steps interleaved
Spec == Init /\ [][Next]_vars

\* The instances with the scheduling of the code: a request that is being
\* served is served on, since every step of get_version_from_revision,
\* get_file_from_revision and get_file_from_version is followed by the next
\* statement of the code; no request has to arrive.  This is
\* WF_vars(request[i].status = "running" /\ Serve(i)), a running request
\* having a step to take, written without ENABLED.
SpecProgress ==
    Spec /\ \A i \in Instances :
                \/ []<>(request[i].status # "running")
                \/ []<><<Serve(i)>>_vars

\* One instance, which serves its requests one after the other
NextSequential == Serve(FIRST_INSTANCE)

SpecSequential == Init /\ [][NextSequential]_vars

(***************************************************************************)
(* versions_test.py, files_test.py: process_response of the caching        *)
(* providers of one instance called directly, with any provider as the     *)
(* active provider and any content.  log holds the last call, followed by  *)
(* the upload it has made.                                                 *)
(***************************************************************************)
\* The calls keep all of the instances but the provider's state.
UnitCalled(i, called) ==
    /\ log' = [log EXCEPT ![i] = called]
    /\ UNCHANGED <<testvars, request, previous, files_pl, versions_pl, zip,
                   requests>>

Unit_LocalMemoryProvider_process_response(i) ==
    \E provider \in Elements(VersionProviders) \cup {None},
       version \in {None, "", "response-1"} :
        /\ version_by_revision' =
               [version_by_revision EXCEPT
                   ![i] = LocalMemoryProvider_process_response(
                              @, LOCAL_MEMORY, provider, REVISION_100,
                              version)]
        /\ UnitCalled(i, <<ProcessResponseCall(0, LOCAL_MEMORY, provider,
                                               REVISION_100, version)>>)
        /\ UNCHANGED local_bucket

\* The call of a provider of the bucket: upload_from_string when the
\* provider uploads, at this path
UnitUpload(i, call, uploads, path) ==
    IF uploads
    THEN \E error \in PreconditionErrors :
             LET up == upload_from_string(local_bucket, path, call.content,
                                          error)
             IN /\ local_bucket' = up.bucket
                /\ UnitCalled(i, <<call, UploadCall(call.provider, path,
                                                    call.content,
                                                    up.outcome, error)>>)
    ELSE /\ UnitCalled(i, <<call>>)
         /\ UNCHANGED local_bucket

Unit_versions_LocalBucketProvider_process_response(i) ==
    \E provider \in Elements(VersionProviders) \cup {None},
       version \in {None, "", "response-1"} :
        /\ UnitUpload(i,
               ProcessResponseCall(1, VERSION_BUCKET, provider, REVISION_100,
                                   version),
               versions_LocalBucketProvider_uploads(VERSION_BUCKET, provider,
                                                    version),
               get_bucket_path(REVISION_100))
        /\ UNCHANGED version_by_revision

Unit_files_LocalBucketProvider_process_response(i) ==
    \E self \in FileBucketProviders, project \in Project,
       content \in {None, "", "response-1"} :
    \E provider \in Elements(RevisionProviders(project)) \cup {None} :
        /\ UnitUpload(i,
               ProcessResponseCall(0, self, provider,
                                   <<REVISION_100, FILE_A>>, content),
               files_LocalBucketProvider_uploads(self, provider, content),
               get_local_path(storage_suffix(self), REVISION_100,
                              FILE_A))
        /\ UNCHANGED version_by_revision

\* The record of requests.get(url) by a provider in a direct call, with the
\* response the mocked service gives
RequestsGetCall(provider, revision, response) ==
    [op |-> "requests.get", idx |-> 0, provider |-> provider,
     winner |-> None, params |-> revision, content |-> None,
     result |-> None, response |-> response]

\* versions_test.py, ChromiumDashProviderTest: retrieve with the responses of
\* mocked_dash_get and some more: the request or .json() raises, an error
\* field, no version, versions that VERSION_PATTERN rejects, one with a
\* leading zero, and one that it accepts without being four integers
Unit_ChromiumDashProvider_retrieve(i) ==
    \E raises \in BOOLEAN,
       error \in {None, "Commit not found.", "Invalid error"},
       earliest \in {None, "100.0.1.1", "940460671", INVALID_VERSION,
                     "100.01.1.1", "1..1."} :
        LET response == [raises |-> raises, error |-> error,
                         earliest |-> earliest]
        IN /\ raises => error = None /\ earliest = None
           /\ UnitCalled(i, <<RequestsGetCall(CHROMIUM_DASH, REVISION_100,
                                              response),
                              RetrieveCall(2, CHROMIUM_DASH, REVISION_100,
                                           ChromiumDashProvider_retrieve(
                                               response))>>)
           /\ UNCHANGED <<local_bucket, version_by_revision>>

\* versions_test.py, ChromiumRepositoryProviderTest: retrieve with the
\* responses of mocked_repository_get and some more: a timeout, 404, a
\* VERSION file, one with a second newline at the end, text that is no
\* VERSION file, a body that is not base64, and a base64 body of bytes that
\* are not UTF-8
Unit_ChromiumRepositoryProvider_retrieve(i) ==
    \E response \in
           {[RepositoryResponse(0, FALSE, "") EXCEPT !.timeout = TRUE],
            RepositoryResponse(404, FALSE, ""),
            RepositoryResponse(200, TRUE, VERSION_FILE("94", "0", "4606",
                                                       "71")),
            RepositoryResponse(200, TRUE, VERSION_FILE("94", "0", "4606",
                                                       "71") \o "\n"),
            RepositoryResponse(200, TRUE, "invalid-response"),
            RepositoryResponse(200, FALSE, ""),
            [RepositoryResponse(200, TRUE, "") EXCEPT !.utf8 = FALSE]} :
        /\ UnitCalled(i, <<RequestsGetCall(CHROMIUM_REPOSITORY, REVISION_100,
                                           response),
                           RetrieveCall(3, CHROMIUM_REPOSITORY, REVISION_100,
                                        ChromiumRepositoryProvider_retrieve(
                                            response))>>)
        /\ UNCHANGED <<local_bucket, version_by_revision>>

NextUnit ==
    \/ Unit_LocalMemoryProvider_process_response(FIRST_INSTANCE)
    \/ Unit_versions_LocalBucketProvider_process_response(FIRST_INSTANCE)
    \/ Unit_files_LocalBucketProvider_process_response(FIRST_INSTANCE)
    \/ Unit_ChromiumDashProvider_retrieve(FIRST_INSTANCE)
    \/ Unit_ChromiumRepositoryProvider_retrieve(FIRST_INSTANCE)

SpecUnit == Init /\ [][NextUnit]_vars

(***************************************************************************)
(* files_test.py, ZipFileProviderTest: extract_from_zip_blob called        *)
(* directly on a provider of the chrome-unsigned bucket, with any list of  *)
(* candidate blobs, of which one names no archive, and any filename.  log  *)
(* holds the downloads of the last call and what it returned.              *)
(***************************************************************************)
MaxBlobnames == 2

Unit_extract_from_zip_blob(i) ==
    /\ zip[i].pc = "idle"
    /\ \E self \in ChromeUnsignedProviders, filename \in Filenames,
          n \in 0..MaxBlobnames :
       \E blobnames \in
              [1..n -> {CHROME_UNSIGNED_ARTIFACT_PATH(version) :
                           version \in {"100.0.1.2", "100.0.1.1",
                                        "100.0.1.0"}}] :
           /\ files_pl' = [files_pl EXCEPT
                              ![i] = Pipeline_call(<<self>>,
                                                   <<REVISION_100, filename>>)]
           /\ zip' = [zip EXCEPT ![i] = [pc |-> "extract",
                                         blobnames |-> blobnames,
                                         k |-> 1]]
    /\ log' = [log EXCEPT ![i] = <<>>]
    /\ UNCHANGED <<testvars, local_bucket, version_by_revision, request,
                   previous, versions_pl, requests>>

NextExtract ==
    \/ Unit_extract_from_zip_blob(FIRST_INSTANCE)
    \/ ZipFileProviderExtract(FIRST_INSTANCE)
    \/ ZipFileProviderSaveToc(FIRST_INSTANCE)

SpecExtract == Init /\ [][NextExtract]_vars

(***************************************************************************)
(* files_test.py, versions_test.py: get_blobnames of ChromeUnsignedProvider *)
(* and the two validations called directly, one call in a behaviour.  log  *)
(* holds the call.                                                         *)
(***************************************************************************)
\* The largest patch number of the versions get_blobnames is called with
MaxPatch == 3

\* ChromeUnsignedProviderTest.test_get_blobnames: get_blobnames(None, None,
\* version) with valid versions, their numbers of one to three digits
Unit_ChromeUnsignedProvider_get_blobnames(i) ==
    log[i] = <<>> /\
    \E major \in {1, 9, 100}, minor \in {0, 12}, build \in {1, 12},
       patch \in 0..MaxPatch \cup {10} :
        LET version == join(".", <<str(major), str(minor), str(build),
                                   str(patch)>>)
        IN /\ UnitCalled(i, <<[op |-> "get_blobnames", idx |-> 0,
                               provider |-> CHROME_UNSIGNED_FRONTEND,
                               winner |-> None, params |-> version,
                               content |-> None, result |-> None,
                               blobnames |->
                                   ChromeUnsignedProvider_get_blobnames(
                                       version)]>>)
           /\ UNCHANGED <<local_bucket, version_by_revision>>

\* IsValidVersionTest: is_valid_version(version) with the strings of three
\* to five components; the components of four are numbers, a number with a
\* leading zero, letters, nothing, and a number before a newline.  The
\* result is True, False or the exception.
Unit_is_valid_version(i) ==
    log[i] = <<>> /\
    \E n \in 3..5 :
    \E parts \in [1..n -> IF n = 4
                          THEN {"", "0", "1", "19", "35", "2011", "012",
                                "K12", "1\n"}
                          ELSE {"0", "1"}] :
        LET version == join(".", parts)
        IN /\ UnitCalled(i, <<[op |-> "is_valid_version", idx |-> 0,
                               provider |-> None, winner |-> None,
                               params |-> version, content |-> None,
                               result |->
                                   IF is_valid_version_raises(version)
                                   THEN Raise("ValueError")
                                   ELSE IF is_valid_version(version)
                                   THEN "True" ELSE "False"]>>)
           /\ UNCHANGED <<local_bucket, version_by_revision>>

\* IsValidRevisionTest: is_valid_revision(revision, length) with the two
\* lengths the code passes; the strings are one character short of a
\* length, of the length and longer, and end in a hexadecimal digit, an
\* upper case digit, another letter, a space or a newline.
Unit_is_valid_revision(i) ==
    log[i] = <<>> /\
    \E start \in {SubSeq(REVISION_100, 1, REVISION_LENGTH - 1),
                  SubSeq(REVISION_6D, 1, SHORT_REVISION_LENGTH - 1)},
       end \in {"", "0", "a", "f", "A", "g", " ", "\n", "a\n", "ab", "aA"},
       length \in {REVISION_LENGTH, SHORT_REVISION_LENGTH} :
        LET revision == start \o end
        IN /\ UnitCalled(i, <<[op |-> "is_valid_revision", idx |-> 0,
                               provider |-> None, winner |-> None,
                               params |-> revision, content |-> None,
                               result |->
                                   IF is_valid_revision(revision, length)
                                   THEN "True" ELSE "False",
                               length |-> length]>>)
           /\ UNCHANGED <<local_bucket, version_by_revision>>

SpecValidation ==
    Init /\ [][\/ Unit_ChromeUnsignedProvider_get_blobnames(FIRST_INSTANCE)
              \/ Unit_is_valid_version(FIRST_INSTANCE)
              \/ Unit_is_valid_revision(FIRST_INSTANCE)]_vars

(***************************************************************************)
(* files.py, versions.py: the memoized pipelines of one process.  The      *)
(* threads of the process call get_pipeline, get_revision_pipeline and     *)
(* get_version_pipeline; a step of a thread is what it does between two    *)
(* accesses to a module global, so the calls of the threads interleave     *)
(* there.  A pipeline instance is its position in constructed, 0 is None.  *)
(* A thread starts a call while fewer than MaxCalls calls have returned.   *)
(***************************************************************************)
\* versions.get_pipeline(): `if _PIPELINE is None`, `_PIPELINE = Pipeline(
\* [...])`, `return _PIPELINE`
get_pipeline(t) ==
    /\ \/ /\ thread[t].pc = "idle" /\ Len(returned) < MaxCalls
          /\ thread' = [thread EXCEPT
                           ![t] = [pc |-> IF versions_PIPELINE = 0
                                          THEN "assign" ELSE "return",
                                   key |-> "versions"]]
          /\ UNCHANGED <<versions_PIPELINE, constructed, returned>>
       \/ /\ thread[t] = [pc |-> "assign", key |-> "versions"]
          /\ constructed' = Append(constructed,
                                   [key |-> "versions",
                                    providers |-> VersionProviders])
          /\ versions_PIPELINE' = Len(constructed')
          /\ thread' = [thread EXCEPT ![t].pc = "return"]
          /\ UNCHANGED returned
       \/ /\ thread[t] = [pc |-> "return", key |-> "versions"]
          /\ returned' = Append(returned, [key |-> "versions",
                                           pipeline |-> versions_PIPELINE])
          /\ thread' = [thread EXCEPT ![t] = [pc |-> "idle", key |-> None]]
          /\ UNCHANGED <<versions_PIPELINE, constructed>>
    /\ UNCHANGED <<pl, calls, files_PIPELINES, local_bucket,
                   version_by_revision, request, previous, files_pl,
                   versions_pl, zip, log, requests>>

\* files.get_revision_pipeline(project): `if singleton_key in _PIPELINES:
\* return _PIPELINES[singleton_key]`, `pipeline = Pipeline([...]);
\* _PIPELINES[singleton_key] = pipeline`, `return _PIPELINES[singleton_key]`
get_revision_pipeline(t) ==
    /\ \/ /\ thread[t].pc = "idle" /\ Len(returned) < MaxCalls
          /\ \E project \in Project :
                 LET singleton_key == "revision__" \o project IN
                 IF singleton_key \in DOMAIN files_PIPELINES
                 THEN /\ returned' =
                             Append(returned,
                                    [key |-> singleton_key,
                                     pipeline |->
                                         files_PIPELINES[singleton_key]])
                      /\ UNCHANGED thread
                 ELSE /\ thread' = [thread EXCEPT
                                       ![t] = [pc |-> "assign",
                                               key |-> project]]
                      /\ UNCHANGED returned
          /\ UNCHANGED <<files_PIPELINES, constructed>>
       \/ /\ thread[t].pc = "assign"
          /\ thread[t].key \in Project
          /\ LET singleton_key == "revision__" \o thread[t].key IN
             /\ constructed' = Append(constructed,
                                      [key |-> singleton_key,
                                       providers |->
                                           RevisionProviders(thread[t].key)])
             /\ files_PIPELINES' =
                    [key \in DOMAIN files_PIPELINES \cup {singleton_key} |->
                        IF key = singleton_key THEN Len(constructed')
                        ELSE files_PIPELINES[key]]
          /\ thread' = [thread EXCEPT ![t].pc = "return"]
          /\ UNCHANGED returned
       \/ /\ thread[t].pc = "return"
          /\ thread[t].key \in Project
          /\ returned' =
                 Append(returned,
                        [key |-> "revision__" \o thread[t].key,
                         pipeline |->
                             files_PIPELINES["revision__" \o thread[t].key]])
          /\ thread' = [thread EXCEPT ![t] = [pc |-> "idle", key |-> None]]
          /\ UNCHANGED <<files_PIPELINES, constructed>>
    /\ UNCHANGED <<pl, calls, versions_PIPELINE, local_bucket,
                   version_by_revision, request, previous, files_pl,
                   versions_pl, zip, log, requests>>

\* files.get_version_pipeline(): `return _PIPELINES.setdefault('version',
\* Pipeline([LegacyM99StaticVersionProvider()]))`: the argument is
\* constructed before setdefault is called, and setdefault keeps the value
\* of a key that exists.
get_version_pipeline(t) ==
    /\ thread[t].pc = "idle" /\ Len(returned) < MaxCalls
    /\ constructed' = Append(constructed,
                             [key |-> "version",
                              providers |-> StaticVersionProviders])
    /\ files_PIPELINES' =
           IF "version" \in DOMAIN files_PIPELINES THEN files_PIPELINES
           ELSE [key \in DOMAIN files_PIPELINES \cup {"version"} |->
                    IF key = "version" THEN Len(constructed')
                    ELSE files_PIPELINES[key]]
    /\ returned' = Append(returned, [key |-> "version",
                                     pipeline |-> files_PIPELINES'["version"]])
    /\ UNCHANGED <<pl, calls, versions_PIPELINE, thread, local_bucket,
                   version_by_revision, request, previous, files_pl,
                   versions_pl, zip, log, requests>>

SpecSingletons ==
    Init /\ [][\E t \in 1..MaxThreads : \/ get_pipeline(t)
                                        \/ get_revision_pipeline(t)
                                        \/ get_version_pipeline(t)]_vars

(***************************************************************************)
(* main.py: the routes /serve_file/@<revision>/<filename> and              *)
(* /serve_internal_file/@<revision>/<filename>, which call serve_rev with  *)
(* the project of the route.  <string:revision> is any text without a      *)
(* slash; the handlers hand it on as it is.  The requests of the instances *)
(* are those of Spec and the requests of the routes, for a revision and    *)
(* for the text made of that revision, a hyphen and the name of the        *)
(* internal project, and for a revision older than the first release.      *)
(***************************************************************************)
\* serve_rev(revision, filename, project): get_version_from_revision for
\* the usage log, then get_file_from_revision, whose content is the
\* response (404 for None)
serve_rev(i) ==
    \/ /\ request[i].status # "running"
       /\ requests < MaxRequests
       /\ \E revision \in {REVISION_100,
                           REVISION_100 \o "-" \o DEVTOOLS_INTERNAL,
                           "0b8b78f5838ed0b1c69bb4e51ea0252171854915"},
             project \in Project :
              /\ request' =
                     [request EXCEPT
                         ![i] = Request(GET_FILE_FROM_REVISION, project,
                                        revision, FILE_A)]
              /\ IF is_valid_revision(revision, REVISION_LENGTH)
                 THEN /\ versions_pl' =
                             [versions_pl EXCEPT
                                 ![i] = Pipeline_call(VersionProviders,
                                                      revision)]
                      /\ UNCHANGED files_pl
                 ELSE \* get_version_from_revision returns None at once
                      /\ files_pl' =
                             [files_pl EXCEPT
                                 ![i] = Pipeline_call(
                                            RevisionProviders(project),
                                            <<revision, FILE_A>>)]
                      /\ UNCHANGED versions_pl
       /\ requests' = requests + 1
       /\ previous' = [previous EXCEPT ![i] = request[i]]
       /\ log' = [log EXCEPT ![i] = <<>>]
       /\ UNCHANGED <<testvars, local_bucket, version_by_revision, zip>>
    \/ \* get_version_from_revision has returned
       /\ request[i].status = "running"
       /\ request[i].fn = GET_FILE_FROM_REVISION
       /\ versions_pl[i].pc = "done"
       /\ zip[i].pc = "idle"
       /\ files_pl[i].pc = "idle"
       /\ versions_pl' = [versions_pl EXCEPT ![i] = NoFrame]
       /\ files_pl' =
              [files_pl EXCEPT
                  ![i] = Pipeline_call(RevisionProviders(request[i].project),
                                       <<request[i].key,
                                         request[i].filename>>)]
       /\ UNCHANGED <<testvars, local_bucket, version_by_revision, request,
                      previous, zip, log, requests>>

SpecRoutes ==
    Init /\ [][\E i \in Instances : serve_rev(i) \/ Serve(i)]_vars

(***************************************************************************)
(* pipelines_test.py: a pipeline over test providers.  Each provider       *)
(* answers retrieve with any response and records process_response.        *)
(***************************************************************************)
MaxProviders == 3

\* pl = Pipeline(providers); pl.retrieve(params), with a list of n test
\* providers that are named by their 0-based position
TestPipelineCall ==
    /\ pl.pc = "idle"
    /\ \E n \in 0..MaxProviders, params \in {"param-1", "invalid-param-A"} :
           pl' = Pipeline_call([k \in 1..n |->
                                   "Provider" \o ToString(k - 1)], params)
    /\ calls' = <<>>
    /\ UNCHANGED <<local_bucket, version_by_revision, request, previous,
                   files_pl, versions_pl, zip, log, requests,
                   versions_PIPELINE, files_PIPELINES, constructed, thread,
                   returned>>

\* response = active_provider.retrieve(params)
TestProviderRetrieve ==
    /\ pl.pc = "loop"
    /\ \E response \in {CONTINUE_SEARCH, DOES_NOT_EXIST, "", "response-1"} :
           /\ pl' = Pipeline_loop(pl, response)
           /\ calls' = Append(calls, RetrieveCall(pl.idx, pl.active_provider,
                                                  pl.params, response))
    /\ UNCHANGED <<local_bucket, version_by_revision, request, previous,
                   files_pl, versions_pl, zip, log, requests,
                   versions_PIPELINE, files_PIPELINES, constructed, thread,
                   returned>>

\* provider.process_response(active_provider, params, content)
TestProviderProcessResponse ==
    /\ pl.pc = "process"
    /\ calls' = Append(calls,
                       ProcessResponseCall(pl.j, Pipeline_process_provider(pl),
                                           pl.active_provider, pl.params,
                                           pl.content))
    /\ pl' = Pipeline_process_next(pl)
    /\ UNCHANGED <<local_bucket, version_by_revision, request, previous,
                   files_pl, versions_pl, zip, log, requests,
                   versions_PIPELINE, files_PIPELINES, constructed, thread,
                   returned>>

NextPipeline ==
    \/ TestPipelineCall
    \/ TestProviderRetrieve
    \/ TestProviderProcessResponse

SpecPipeline == Init /\ [][NextPipeline]_vars

(***************************************************************************)
(* Claims about Pipeline.retrieve, checked under SpecPipeline.              *)
(***************************************************************************)
RetrieveCalls == SelectSeq(calls, LAMBDA c : c.op = "retrieve")
ProcessCalls == SelectSeq(calls, LAMBDA c : c.op = "process_response")

PipelineReturned == pl.pc = "done"
LastRetrieve == RetrieveCalls[Len(RetrieveCalls)]

\* The search of a returned call over a non-empty list ended at a provider
\* with this kind of result.
StoppedFound ==
    PipelineReturned /\ RetrieveCalls # <<>>
        /\ LastRetrieve.result \notin {CONTINUE_SEARCH, DOES_NOT_EXIST}
StoppedDoesNotExist ==
    PipelineReturned /\ RetrieveCalls # <<>>
        /\ LastRetrieve.result = DOES_NOT_EXIST
Exhausted ==
    PipelineReturned /\ RetrieveCalls # <<>>
        /\ \A k \in 1..Len(RetrieveCalls) :
               RetrieveCalls[k].result = CONTINUE_SEARCH

\* The process_response calls are exactly those of providers i, i-1, ..., 0
\* in that order, each with this winner and content.
NotifiedDownFrom(i, winner, content) ==
    /\ Len(ProcessCalls) = i + 1
    /\ \A k \in 1..(i + 1) :
           /\ ProcessCalls[k].idx = i - (k - 1)
           /\ ProcessCalls[k].provider = pl.providers[i - (k - 1) + 1]
           /\ ProcessCalls[k].winner = winner
           /\ ProcessCalls[k].params = pl.params
           /\ ProcessCalls[k].content = content

\* C1: Pipeline.retrieve calls retrieve on the providers in list order, each
\* at most once, and stops at the first provider whose result is not
\* CONTINUE_SEARCH: no provider after that one has retrieve or
\* process_response called, and a call that returned has asked every provider
\* up to that one (or all of them).
C1_RetrieveInOrderUntilFirstAnswer ==
    /\ \A k \in 1..Len(RetrieveCalls) :
           /\ RetrieveCalls[k].idx = k - 1
           /\ RetrieveCalls[k].provider = pl.providers[k]
           /\ RetrieveCalls[k].params = pl.params
           /\ k < Len(RetrieveCalls)
                  => RetrieveCalls[k].result = CONTINUE_SEARCH
           /\ RetrieveCalls[k].result # CONTINUE_SEARCH
                  => \A c \in 1..Len(calls) : calls[c].idx <= k - 1
    /\ \A c \in 1..Len(calls) :
           calls[c].op = "process_response" => c > Len(RetrieveCalls)
    /\ (PipelineReturned /\ Len(pl.providers) > 0)
           => \/ LastRetrieve.result # CONTINUE_SEARCH
              \/ Len(RetrieveCalls) = Len(pl.providers)

\* A returned call over three providers that stopped at the second one.
C1_Witness ==
    /\ PipelineReturned
    /\ Len(pl.providers) = 3
    /\ Len(RetrieveCalls) = 2
    /\ LastRetrieve.result # CONTINUE_SEARCH

\* C2: if provider i returns Found(x), providers 0..i each receive exactly
\* one process_response call with winner = provider i and content = x, in
\* strictly decreasing index order, and providers after i receive none.
C2_FoundNotifiesWinnerDownToFirst ==
    StoppedFound =>
        NotifiedDownFrom(LastRetrieve.idx, LastRetrieve.provider,
                         LastRetrieve.result)

\* The third of three providers found content.
C2_Witness ==
    /\ StoppedFound
    /\ LastRetrieve.idx = 2
    /\ Len(ProcessCalls) = 3

\* C3: if every provider of a non-empty pipeline returns ContinueSearch,
\* every provider receives exactly one process_response call with winner None
\* and content None, in reverse list order, and Pipeline.retrieve returns
\* None.
C3_ExhaustionNotifiesAllWithNone ==
    Exhausted =>
        /\ NotifiedDownFrom(Len(pl.providers) - 1, None, None)
        /\ Pipeline_return(pl) = None

\* Three providers, all of which continued.
C3_Witness ==
    /\ Exhausted
    /\ Len(pl.providers) = 3
    /\ Len(ProcessCalls) = 3

\* C4: Pipeline.retrieve returns the stopping provider's payload exactly when
\* its result is Found; when the stopping provider i returns DoesNotExist the
\* call returns None and providers 0..i receive process_response with
\* winner = provider i and content None; exhaustion (and the empty pipeline)
\* returns None as well.
C4_ReturnsPayloadOnlyWhenFound ==
    PipelineReturned =>
        /\ StoppedFound => Pipeline_return(pl) = LastRetrieve.result
        /\ Pipeline_return(pl) # None => StoppedFound
        /\ StoppedDoesNotExist =>
               /\ Pipeline_return(pl) = None
               /\ NotifiedDownFrom(LastRetrieve.idx, LastRetrieve.provider,
                                   None)
        /\ (Exhausted \/ Len(pl.providers) = 0) => Pipeline_return(pl) = None

\* The second provider answered DoesNotExist.
C4_Witness ==
    /\ StoppedDoesNotExist
    /\ LastRetrieve.idx = 1
    /\ Len(ProcessCalls) = 2

(***************************************************************************)
(* Claims about the conditional upload and the caches, checked under Spec, *)
(* SpecSequential and SpecUnit.                                            *)
(***************************************************************************)
\* The calls of upload_from_string in the log of the instance
Uploads(i) == SelectSeq(log[i], LAMBDA c : c.op = "upload")
UploadsBy(i, providers) ==
    SelectSeq(log[i], LAMBDA c : c.op = "upload" /\ c.provider \in providers)
RetrievesBy(i, providers) ==
    SelectSeq(log[i],
              LAMBDA c : c.op = "retrieve" /\ c.provider \in providers)
ProcessResponsesOf(i, providers) ==
    SelectSeq(log[i],
              LAMBDA c : c.op = "process_response"
                             /\ c.provider \in providers)

\* The store has reported the race of a conditional create.
ReportsConditionNotMet(upload) ==
    upload.reason = "conditionNotMet" /\ upload.location = "If-Match"

\* The key of the durable artifact cache, as the claims write it:
\* extracted/<revision>[-suffix]/<filename>
ArtifactKey(r) ==
    "extracted/" \o r.key
        \o (IF r.project = DEVTOOLS_INTERNAL THEN "-devtools-internal" ELSE "")
        \o "/" \o r.filename

IsArtifactLookup(r) ==
    r.fn \in {GET_FILE_FROM_REVISION, GET_FILE_FROM_VERSION}

\* Two requests ask the same function for the same arguments.
SameLookup(a, b) ==
    /\ a.fn = b.fn
    /\ a.project = b.project
    /\ a.key = b.key
    /\ a.filename = b.filename

ReturnedContent(r) == r.status = "returned" /\ r.ret # None

\* C5: in every reachable state of any number of serving instances running
\* resolves in any interleaving, a durable object that exists (artifact cache
\* entry, version cache entry or archive TOC) still holds the bytes of its
\* first successful create: no step removes or changes an object of the
\* bucket.
C5_DurableObjectsKeepFirstCreate ==
    [][\A name \in DOMAIN local_bucket :
           /\ name \in DOMAIN local_bucket'
           /\ local_bucket'[name] = local_bucket[name]]_vars

\* An instance has tried to write other bytes to an object that existed, and
\* the object holds the bytes of its creator.
C5_Witness ==
    \E i \in Instances : \E k \in 1..Len(Uploads(i)) :
        /\ Uploads(i)[k].result = "discarded"
        /\ Uploads(i)[k].params \in DOMAIN local_bucket
        /\ local_bucket[Uploads(i)[k].params] # Uploads(i)[k].content

C7_ResolveTwiceSameContent ==
    \A i \in Instances :
        (/\ request[i].status = "returned"
         /\ previous[i].status = "returned"
         /\ SameLookup(previous[i], request[i]))
            => request[i].ret = previous[i].ret

\* The same file was resolved twice: an archive provider found the empty
\* file, and the durable cache then answered with the empty file.
C7_Witness ==
    \E i \in Instances :
        /\ request[i].status = "returned"
        /\ previous[i].status = "returned"
        /\ SameLookup(previous[i], request[i])
        /\ IsArtifactLookup(request[i])
        /\ previous[i].winner \in ZipProviders
        /\ previous[i].ret = ""
        /\ request[i].winner \in FileBucketProviders
        /\ request[i].ret = ""

\* C8: in the revision-keyed artifact pipeline a durable-cache miss followed
\* by a successful archive extraction results in exactly one write-back call,
\* which creates extracted/<revision>[-suffix]/<filename> with the extracted
\* bytes, and a repeat request for the same key is answered by the durable
\* cache with the same bytes without a retrieve of an archive provider.
C8_ExtractionWritesBackOnce ==
    \A i \in Instances :
        /\ (/\ request[i].fn = GET_FILE_FROM_REVISION
            /\ ReturnedContent(request[i])
            /\ request[i].winner \in ZipProviders)
               => /\ RetrievesBy(i, FileBucketProviders)[1].result
                         = CONTINUE_SEARCH
                  /\ Len(ProcessResponsesOf(i, FileBucketProviders)) = 1
                  /\ Len(UploadsBy(i, FileBucketProviders)) = 1
                  /\ LET upload == UploadsBy(i, FileBucketProviders)[1] IN
                     /\ upload.params = ArtifactKey(request[i])
                     /\ upload.content = request[i].ret
                     /\ upload.result = "created"
                  /\ ArtifactKey(request[i]) \in DOMAIN local_bucket
                  /\ local_bucket[ArtifactKey(request[i])] = request[i].ret
        /\ (/\ previous[i].fn = GET_FILE_FROM_REVISION
            /\ ReturnedContent(previous[i])
            /\ previous[i].winner \in ZipProviders
            /\ SameLookup(previous[i], request[i])
            /\ request[i].status = "returned")
               => /\ request[i].winner \in FileBucketProviders
                  /\ request[i].ret = previous[i].ret
                  /\ RetrievesBy(i, ZipProviders) = <<>>
                  /\ Len(RetrievesBy(i, FileBucketProviders)) = 1
                  /\ RetrievesBy(i, FileBucketProviders)[1].result
                         = previous[i].ret
                  /\ Uploads(i) = <<>>

\* A file of the internal project was extracted from an archive and written
\* back, and the repeat request was answered by the durable cache.
C8_Witness ==
    \E i \in Instances :
        /\ previous[i].fn = GET_FILE_FROM_REVISION
        /\ previous[i].project = DEVTOOLS_INTERNAL
        /\ ReturnedContent(previous[i])
        /\ previous[i].winner \in ZipProviders
        /\ SameLookup(previous[i], request[i])
        /\ request[i].status = "returned"
        /\ request[i].winner \in FileBucketProviders

\* C9 as claimed: after any artifact lookup that returns content, by
\* revision or by version, the durable cache holds an object with that
\* content under the key of the request.
C9_EveryLookupLeavesCacheObject ==
    \A i \in Instances :
        (IsArtifactLookup(request[i]) /\ ReturnedContent(request[i]))
            => /\ ArtifactKey(request[i]) \in DOMAIN local_bucket
               /\ local_bucket[ArtifactKey(request[i])] = request[i].ret

\* C9, amended: after a lookup by revision that returns content the durable
\* cache holds an object under the key of the request; the object holds the
\* returned content when the cache answered the lookup or the write-back of
\* the lookup created it, and may hold the bytes of another instance's
\* create otherwise.  A lookup by version writes no artifact cache object.
C9_RevisionLookupLeavesCacheObject ==
    \A i \in Instances :
        /\ (request[i].fn = GET_FILE_FROM_REVISION
                /\ ReturnedContent(request[i]))
               => /\ ArtifactKey(request[i]) \in DOMAIN local_bucket
                  /\ (\/ request[i].winner \in FileBucketProviders
                      \/ \E k \in 1..Len(UploadsBy(i, FileBucketProviders)) :
                             UploadsBy(i, FileBucketProviders)[k].result
                                 = "created")
                         => local_bucket[ArtifactKey(request[i])]
                                = request[i].ret
        /\ request[i].fn = GET_FILE_FROM_VERSION
               => /\ UploadsBy(i, FileBucketProviders) = <<>>
                  /\ ProcessResponsesOf(i, FileBucketProviders) = <<>>
                  /\ RetrievesBy(i, FileBucketProviders) = <<>>

\* A lookup by revision has returned bytes that differ from those of the
\* object under its key: another instance had created the object from the
\* archive of another version.
C9_Witness ==
    \E i \in Instances :
        /\ request[i].fn = GET_FILE_FROM_REVISION
        /\ ReturnedContent(request[i])
        /\ ArtifactKey(request[i]) \in DOMAIN local_bucket
        /\ local_bucket[ArtifactKey(request[i])] # request[i].ret

\* C10: a caching provider (durable artifact cache, durable version cache,
\* in-memory version map) that receives process_response with itself as
\* winner performs no write and leaves its stored state unchanged, for every
\* params and content.
C10_SelfWinnerWritesNothing ==
    [][\A i \in Instances :
           (/\ log'[i] # <<>>
            /\ log'[i][1].op = "process_response"
            /\ log'[i][1].winner = log'[i][1].provider)
               => /\ Len(log'[i]) = 1
                  /\ local_bucket' = local_bucket
                  /\ version_by_revision' = version_by_revision]_vars

\* The durable artifact cache was called with itself as winner and with
\* content, and there is no object under its key.
C10_Witness ==
    \E i \in Instances :
        /\ Len(log[i]) = 1
        /\ log[i][1].op = "process_response"
        /\ log[i][1].provider \in FileBucketProviders
        /\ log[i][1].winner = log[i][1].provider
        /\ log[i][1].content = "response-1"
        /\ get_local_path(storage_suffix(log[i][1].provider), REVISION_100,
                          FILE_A) \notin DOMAIN local_bucket

(***************************************************************************)
(* Claims about absent and empty content and about the errors of the       *)
(* providers.                                                              *)
(***************************************************************************)
\* The durable caches: the artifact cache of either project and the version
\* cache
DurableCacheProviders == FileBucketProviders \cup {VERSION_BUCKET}

\* A step has added calls to the log of the instance, and the first of them
AddsCall(i) ==
    Len(log'[i]) > Len(log[i]) /\ SubSeq(log'[i], 1, Len(log[i])) = log[i]
AddedCall(i) == log'[i][Len(log[i]) + 1]

\* What the durable cache of the call answers to a retrieve of its params
DurableCacheRetrieve(bucket, call) ==
    IF call.provider = VERSION_BUCKET
    THEN versions_LocalBucketProvider_retrieve(bucket, call.params)
    ELSE files_LocalBucketProvider_retrieve(bucket, call.provider,
                                            call.params[1], call.params[2])

\* C11: when the content of a resolve is absent (DoesNotExist or
\* exhaustion), process_response of the durable artifact cache and of the
\* durable version cache makes no upload and creates no object: the local
\* bucket is unchanged and a retrieve of the same key by that provider
\* answers as before.
C11_AbsentContentCreatesNoObject ==
    [][\A i \in Instances :
           (/\ AddsCall(i)
            /\ AddedCall(i).op = "process_response"
            /\ AddedCall(i).provider \in DurableCacheProviders
            /\ AddedCall(i).content = None)
               => /\ Len(log'[i]) = Len(log[i]) + 1
                  /\ local_bucket' = local_bucket
                  /\ DurableCacheRetrieve(local_bucket', AddedCall(i))
                         = DurableCacheRetrieve(local_bucket,
                                                AddedCall(i))]_vars

\* An archive provider has answered DoesNotExist, the durable artifact cache
\* has received process_response with absent content, and its retrieve of
\* the key still answers ContinueSearch.
C11_Witness ==
    \E i \in Instances : \E k \in 1..Len(log[i]) :
        /\ log[i][k].op = "process_response"
        /\ log[i][k].provider \in FileBucketProviders
        /\ log[i][k].winner \in ZipProviders
        /\ log[i][k].content = None
        /\ DurableCacheRetrieve(local_bucket, log[i][k]) = CONTINUE_SEARCH

\* A resolve of the version of a revision that went through the pipeline and
\* ended with absent content
AbsentVersionResolve(r) ==
    /\ r.fn = GET_VERSION_FROM_REVISION
    /\ r.status = "returned"
    /\ is_valid_revision(r.key, REVISION_LENGTH)
    /\ r.ret = None

\* C12: after a version resolve for revision R ends with absent content,
\* whether a provider returned DoesNotExist or every provider returned
\* ContinueSearch, the in-memory map of the process holds None for R, and
\* every later resolve of R in the process is answered DoesNotExist by the
\* in-memory provider without a retrieve of the durable cache or of a remote
\* provider.
C12_AbsentVersionIsCachedInMemory ==
    \A i \in Instances :
        /\ \A r \in {request[i], previous[i]} :
               AbsentVersionResolve(r) =>
                   /\ r.key \in DOMAIN version_by_revision[i]
                   /\ version_by_revision[i][r.key] = None
        /\ AbsentVersionResolve(previous[i]) =>
               /\ \A k \in 1..Len(RetrievesBy(i, Elements(VersionProviders))) :
                      LET call == RetrievesBy(i, Elements(VersionProviders))[k]
                      IN /\ call.provider = LOCAL_MEMORY
                         /\ call.result = DOES_NOT_EXIST
               /\ (request[i].fn = GET_VERSION_FROM_REVISION
                       /\ request[i].status = "returned")
                      => /\ request[i].ret = None
                         /\ request[i].winner = LOCAL_MEMORY
                         /\ Len(RetrievesBy(i, {LOCAL_MEMORY})) = 1

\* Every provider answered ContinueSearch to the first resolve (the request
\* to the repository timed out), and the in-memory provider has answered the
\* second resolve of the revision.
C12_Witness ==
    \E i \in Instances :
        /\ AbsentVersionResolve(previous[i])
        /\ previous[i].key = REVISION_100
        /\ previous[i].winner = None
        /\ request[i].fn = GET_VERSION_FROM_REVISION
        /\ request[i].status = "returned"
        /\ request[i].winner = LOCAL_MEMORY

\* C13: a found result whose payload is empty is never turned into
\* DoesNotExist, ContinueSearch or absent: Pipeline.retrieve hands on the
\* empty payload, and a cache that holds the empty payload for a key, the
\* in-memory map or a durable cache, answers a retrieve of the key with the
\* empty payload.
C13_EmptyPayloadIsServed ==
    /\ Pipeline_content("") = ""
    /\ \A i \in Instances : \A revision \in DOMAIN version_by_revision[i] :
           version_by_revision[i][revision] = "" =>
               LocalMemoryProvider_retrieve(version_by_revision[i], revision)
                   = ""
    /\ get_bucket_path(REVISION_100) \in DOMAIN local_bucket =>
           (local_bucket[get_bucket_path(REVISION_100)] = "" =>
                versions_LocalBucketProvider_retrieve(local_bucket,
                                                      REVISION_100) = "")
    /\ \A self \in FileBucketProviders :
           LET path == get_local_path(storage_suffix(self), REVISION_100,
                                      FILE_A)
           IN path \in DOMAIN local_bucket =>
                  (local_bucket[path] = "" =>
                       files_LocalBucketProvider_retrieve(
                           local_bucket, self, REVISION_100, FILE_A) = "")

\* C14: for every outcome of the external collaborators and for every
\* request string, get_version_from_revision, get_file_from_revision and
\* get_file_from_version return content or absent and never raise.
C14_ResolvesNeverRaise ==
    \A i \in Instances :
        /\ request[i].status # "raised"
        /\ previous[i].status # "raised"

(***************************************************************************)
(* Claims about malformed input and about the answers of single providers  *)
(***************************************************************************)
\* The calls of download_blob in the log of the request of instance i
Downloads(i) == SelectSeq(log[i], LAMBDA c : c.op = "download")
\* The calls of retrieve in the log of the request of instance i
Retrieves(i) == SelectSeq(log[i], LAMBDA c : c.op = "retrieve")

\* Instance i serves get_file_from_revision with a revision that is neither
\* 40 nor 6 lowercase hex characters.
MalformedRevisionResolve(i) ==
    /\ request[i].fn = GET_FILE_FROM_REVISION
    /\ request[i].status # "idle"
    /\ ~is_valid_revision(request[i].key, REVISION_LENGTH)
    /\ ~is_valid_revision(request[i].key, SHORT_REVISION_LENGTH)

\* The two objects that are fetched under a name made of the unvalidated
\* revision: the one of the durable artifact cache and the manifest of the
\* legacy hash-store provider
UnvalidatedFetch(r, c) ==
    \/ /\ c.provider \in FileBucketProviders
       /\ c.bucket = LOCAL_BUCKET
       /\ c.params = get_local_path(storage_suffix(c.provider), r.key,
                                    r.filename)
    \/ /\ c.provider = LEGACY_FILES
       /\ c.bucket = LEGACY_BUCKET
       /\ c.params = LEGACY_M99_META_PATH(r.key)

ManifestLacksFile(c) ==
    LET meta_blob == download_blob(RemoteBucket(LEGACY_BUCKET),
                                   LEGACY_M99_META_PATH(c.params[1]))
    IN /\ c.op = "retrieve"
       /\ c.provider = LEGACY_FILES
       /\ meta_blob # None
       /\ LET lines == split(strip(meta_blob, {"\n"}), "\n")
          IN \A k \in 1..Len(lines) :
                 find_file_hash(<<lines[k]>>, c.params[2]) = None

\* C16, as stated: when the manifest meta/@<revision> exists but has no line
\* for the requested filename, the legacy hash-store provider answers
\* DoesNotExist.
C16_ManifestWithoutFileIsTerminal ==
    \A i \in Instances : \A k \in 1..Len(log[i]) :
        ManifestLacksFile(log[i][k]) => log[i][k].result = DOES_NOT_EXIST

\* C16, amended: when the manifest meta/@<revision> exists but has no line
\* for the requested filename, the legacy hash-store provider answers
\* ContinueSearch, not DoesNotExist, and fetches no hash object.
C16_ManifestWithoutFileContinues ==
    \A i \in Instances : \A k \in 1..Len(log[i]) :
        ManifestLacksFile(log[i][k]) =>
            /\ log[i][k].result = CONTINUE_SEARCH
            /\ Len(SelectSeq(Downloads(i),
                             LAMBDA d : d.provider = LEGACY_FILES)) = 1

\* The hash-store provider has been asked for a file that the existing
\* manifest of the revision does not list, and the resolve has returned.
C16_Witness ==
    \E i \in Instances : \E k \in 1..Len(log[i]) :
        /\ ManifestLacksFile(log[i][k])
        /\ log[i][k].params = <<REVISION_2, "missing.js">>
        /\ log[i][k].result = CONTINUE_SEARCH
        /\ request[i].status = "returned"
        /\ request[i].ret = None
        /\ request[i].winner = None

\* A call of download_blob by an archive provider has read the cached table
\* of content of a candidate blob, and the table lists none of the candidate
\* paths (base directory + filename).
TocLacksPaths(d, filename) ==
    /\ d.op = "download"
    /\ d.provider \in ZipProviders
    /\ d.bucket = LOCAL_BUCKET
    /\ d.result # None
    /\ \A p \in Elements(zip_candidate_paths(d.provider, filename)) :
           p \notin Elements(split(strip(d.result, {"\n"}), "\n"))

\* The call is the download of the archive whose table of content is toc_path
ArchiveFetch(d, provider, toc_path) ==
    /\ d.op = "download"
    /\ d.provider = provider
    /\ d.bucket = get_bucketname(provider)
    /\ get_zip_toc_path(provider, d.params) = toc_path

\* C17: when a candidate blob has a cached table of content that contains
\* none of the candidate paths, extract_from_zip_blob returns DoesNotExist
\* without fetching that archive (0 fetches for the blob) or any later
\* candidate archive.
C17_CachedTocMissFetchesNoArchive ==
    \A i \in Instances : \A k \in 1..Len(log[i]) :
        TocLacksPaths(log[i][k], request[i].filename) =>
            /\ k < Len(log[i])
            /\ log[i][k + 1].op = "retrieve"
            /\ log[i][k + 1].provider = log[i][k].provider
            /\ log[i][k + 1].result = DOES_NOT_EXIST
            /\ \A m \in 1..Len(log[i]) :
                   ~ArchiveFetch(log[i][m], log[i][k].provider,
                                 log[i][k].params)
            /\ \A m \in (k + 1)..Len(log[i]) :
                   ~(log[i][m].op = "download"
                        /\ log[i][m].provider = log[i][k].provider)

\* The table of content of the first of two candidate archives was cached
\* by an earlier request and lacks the path: the resolve has ended with
\* DoesNotExist at the archive provider.
C17_Witness ==
    \E i \in Instances : \E k \in 1..Len(log[i]) :
        /\ TocLacksPaths(log[i][k], request[i].filename)
        /\ log[i][k].params
               = get_zip_toc_path(CHROME_UNSIGNED_FRONTEND,
                                  CHROME_UNSIGNED_ARTIFACT_PATH("100.0.1.1"))
        /\ request[i].filename = "missing.js"
        /\ request[i].status = "returned"
        /\ request[i].ret = None
        /\ request[i].winner = CHROME_UNSIGNED_FRONTEND
        /\ previous[i].winner = CHROME_UNSIGNED_FRONTEND

\* The cached table of content of the blob exists and lists none of the
\* candidate paths of the file.
CachedTocLacksPath(self, blobname, filename) ==
    LET toc == download_blob(local_bucket, get_zip_toc_path(self, blobname))
    IN /\ toc # None
       /\ \A p \in Elements(zip_candidate_paths(self, filename)) :
              p \notin Elements(split(strip(toc, {"\n"}), "\n"))

\* The archive of the blob cannot be fetched.
Unfetchable(self, blobname) ==
    download_blob(RemoteBucket(get_bucketname(self)), blobname) = None

\* The archive of the blob holds the file under none of the candidate paths.
ArchiveLacksPath(self, blobname, filename) ==
    LET files == ZipFiles(ZipFile_infolist(
                     download_blob(RemoteBucket(get_bucketname(self)),
                                   blobname)))
    IN \A p \in Elements(zip_candidate_paths(self, filename)) :
           \A k \in 1..Len(files) : files[k].orig_filename # p

\* The index of the first decisive candidate, one with a cached table of
\* content lacking the path or with an archive that can be fetched; 0 if
\* there is none
FirstDecisive(self, blobnames, filename) ==
    LET decisive == {k \in 1..Len(blobnames) :
                        \/ CachedTocLacksPath(self, blobnames[k], filename)
                        \/ ~Unfetchable(self, blobnames[k])}
    IN IF decisive = {} THEN 0
       ELSE CHOOSE k \in decisive : \A m \in decisive : k <= m

\* The step in which extract_from_zip_blob of instance i returns
ExtractReturns(i) ==
    /\ zip[i].pc \in {"extract", "save_zip_toc"}
    /\ zip'[i].pc = "idle"

\* C18: extract_from_zip_blob skips every candidate blob whose archive
\* cannot be fetched and continues with the next one; it returns
\* ContinueSearch exactly when no candidate was decisive (the list is empty,
\* or every candidate was unfetchable and none had a cached table of content
\* lacking the path), and DoesNotExist when a fetched archive does not
\* contain the path.
C18_ExtractSkipsUnfetchableCandidates ==
    [][\A i \in Instances :
           ExtractReturns(i) =>
               LET self == files_pl[i].active_provider
                   filename == files_pl[i].params[2]
                   blobnames == zip[i].blobnames
                   d == FirstDecisive(self, blobnames, filename)
                   tocmiss == d # 0 /\ CachedTocLacksPath(self, blobnames[d],
                                                          filename)
                   \* the archives the call has to fetch, in this order
                   n == IF d = 0 THEN Len(blobnames)
                        ELSE IF tocmiss THEN d - 1 ELSE d
                   fetches ==
                       SelectSeq(log'[i],
                                 LAMBDA c : /\ c.op = "download"
                                            /\ c.bucket = get_bucketname(self))
                   result == log'[i][Len(log'[i])].result
               IN /\ log'[i][Len(log'[i])].op = "retrieve"
                  /\ Len(fetches) = n
                  /\ \A k \in 1..n :
                         /\ fetches[k].params = blobnames[k]
                         /\ (fetches[k].result = None) <=> (k # d)
                  /\ (result = CONTINUE_SEARCH) <=> (d = 0)
                  /\ (d # 0 /\ ~tocmiss
                         /\ ArchiveLacksPath(self, blobnames[d], filename))
                         => result = DOES_NOT_EXIST
                  /\ (result = DOES_NOT_EXIST)
                         => (tocmiss \/ ArchiveLacksPath(self, blobnames[d],
                                                         filename))]_vars

\* A call has skipped a candidate whose archive does not exist and has
\* returned the file from the next one.
C18_Witness ==
    \E i \in Instances :
        /\ zip[i].pc = "idle"
        /\ Len(log[i]) > 0
        /\ log[i][Len(log[i])].op = "retrieve"
        /\ log[i][Len(log[i])].result = "A-100.0.1.1"
        /\ \E k \in 1..Len(log[i]) :
               /\ log[i][k].op = "download"
               /\ log[i][k].params = CHROME_UNSIGNED_ARTIFACT_PATH("100.0.1.2")
               /\ log[i][k].result = None

\* The retrieve of the provider was called directly and requests.get gave
\* the response of log[i][k]: the next call in the log is its return.
DirectRetrieve(i, k, provider) ==
    /\ k < Len(log[i])
    /\ log[i][k].op = "requests.get"
    /\ log[i][k].provider = provider
    /\ log[i][k + 1].op = "retrieve"
    /\ log[i][k + 1].provider = provider

\* C19, as stated: ChromiumDashProvider.retrieve returns the reported
\* earliest version only when the request succeeds, the body is JSON
\* without an error field and the version passes is_valid_version; for a
\* request exception, malformed JSON, any error, a missing version or an
\* invalid version it returns ContinueSearch, and never DoesNotExist.
C19_DashAnswersVersionOrContinues ==
    \A i \in Instances : \A k \in 1..Len(log[i]) :
        DirectRetrieve(i, k, CHROMIUM_DASH) =>
            LET r == log[i][k].response
                result == log[i][k + 1].result
                passes == /\ ~r.raises
                          /\ r.error = None
                          /\ r.earliest # None
                          /\ ~is_valid_version_raises(r.earliest)
                          /\ is_valid_version(r.earliest)
            IN /\ result # DOES_NOT_EXIST
               /\ IF passes THEN result = r.earliest
                  ELSE result = CONTINUE_SEARCH

\* C20, as stated: ChromiumRepositoryProvider.retrieve returns DoesNotExist
\* exactly when the repository answers 404; it returns ContinueSearch on a
\* timeout, on a body that is not base64 and on decoded content that does
\* not match the MAJOR/MINOR/BUILD/PATCH layout, never propagating an
\* error; otherwise it returns major.minor.build.patch from the file.
C20_RepositoryAnswersVersionOrContinues ==
    \A i \in Instances : \A k \in 1..Len(log[i]) :
        DirectRetrieve(i, k, CHROMIUM_REPOSITORY) =>
            LET r == log[i][k].response
                result == log[i][k + 1].result
                matches == /\ r.base64
                           /\ r.utf8
                           /\ VERSION_FILE_PATTERN_match(r.text) # None
            IN /\ (result = DOES_NOT_EXIST)
                      <=> (~r.timeout /\ r.status_code = 404)
               /\ ~IsRaise(result)
               /\ (r.timeout \/ (r.status_code # 404 /\ ~matches))
                      => result = CONTINUE_SEARCH
               /\ (~r.timeout /\ r.status_code # 404 /\ matches)
                      => result = VERSION_FILE_PATTERN_match(r.text)

(***************************************************************************)
(* Claims about the order and the backfill of the version providers, and   *)
(* about the validations                                                   *)
(***************************************************************************)
\* The provider that has to have answered ContinueSearch before this one is
\* asked; None for the in-memory map
TierBefore(provider) ==
    IF provider = VERSION_BUCKET THEN LOCAL_MEMORY
    ELSE IF provider = CHROMIUM_DASH THEN VERSION_BUCKET
    ELSE IF provider = CHROMIUM_REPOSITORY THEN CHROMIUM_DASH
    ELSE None

\* In a list of retrieve calls of version providers every call of a provider
\* other than the in-memory map follows the ContinueSearch of the tier
\* before it, for the same revision.
TiersInOrder(retrieves) ==
    \A k \in 1..Len(retrieves) :
        retrieves[k].provider # LOCAL_MEMORY =>
            /\ k > 1
            /\ retrieves[k - 1].provider = TierBefore(retrieves[k].provider)
            /\ retrieves[k - 1].params = retrieves[k].params
            /\ retrieves[k - 1].result = CONTINUE_SEARCH

\* C21: in a version resolve the durable version cache is fetched only after
\* the in-memory map returned ContinueSearch, the first remote service is
\* asked only after the durable cache missed, and the source repository only
\* after the first remote service returned ContinueSearch; no remote request
\* is made for a revision that the in-memory map holds or that the durable
\* cache held when the resolve looked it up.
C21_VersionTiersAreAskedInOrder ==
    [][\A i \in Instances :
           (Len(log'[i]) > Len(log[i])
               /\ log'[i][Len(log'[i])].op = "retrieve"
               /\ log'[i][Len(log'[i])].provider \in Elements(VersionProviders))
           => LET c == log'[i][Len(log'[i])]
                  path == get_bucket_path(c.params)
                  fetches == SelectSeq(log'[i],
                                       LAMBDA d : /\ d.op = "download"
                                                  /\ d.provider = VERSION_BUCKET)
              IN /\ TiersInOrder(RetrievesBy(i, Elements(VersionProviders))')
                 /\ Len(fetches)
                        = Len(RetrievesBy(i, {VERSION_BUCKET})')
                 /\ (c.provider = LOCAL_MEMORY
                        /\ c.params \in DOMAIN version_by_revision[i])
                        => c.result # CONTINUE_SEARCH
                 /\ (c.provider = VERSION_BUCKET
                        /\ path \in DOMAIN local_bucket)
                        => c.result = local_bucket[path]
                 /\ c.provider \in {CHROMIUM_DASH, CHROMIUM_REPOSITORY}
                        => c.params \notin DOMAIN version_by_revision[i]]_vars

\* A version resolve went through the four tiers: the two caches missed, the
\* first remote service answered ContinueSearch and the repository gave the
\* version.
C21_Witness ==
    \E i \in Instances :
        LET retrieves == RetrievesBy(i, Elements(VersionProviders)) IN
        /\ request[i].fn = GET_VERSION_FROM_REVISION
        /\ request[i].status = "returned"
        /\ Len(retrieves) = 4
        /\ retrieves[4].provider = CHROMIUM_REPOSITORY
        /\ retrieves[4].result = request[i].ret
        /\ request[i].ret = "100.0.1.0"

\* C21, as stated: the tiers are asked in order, and no remote request is
\* made for a revision that either cache holds at the time of the request.
C21_NoRemoteRequestForCachedRevision ==
    [][\A i \in Instances :
           (Len(log'[i]) > Len(log[i])
               /\ log'[i][Len(log'[i])].op = "retrieve"
               /\ log'[i][Len(log'[i])].provider
                      \in {CHROMIUM_DASH, CHROMIUM_REPOSITORY})
           => LET c == log'[i][Len(log'[i])] IN
              /\ TiersInOrder(RetrievesBy(i, Elements(VersionProviders))')
              /\ c.params \notin DOMAIN version_by_revision[i]
              /\ get_bucket_path(c.params) \notin DOMAIN local_bucket]_vars

\* A version resolve that has returned a version supplied by a remote
\* service
RemoteSuppliedVersion(r) ==
    /\ r.fn = GET_VERSION_FROM_REVISION
    /\ r.status = "returned"
    /\ r.winner \in {CHROMIUM_DASH, CHROMIUM_REPOSITORY}
    /\ r.ret # None

\* C22: after a version resolve in which a remote service supplied version v
\* for revision R, the in-memory map holds v for R and the durable version
\* cache holds an entry for R; the next resolve of R in the same process is
\* answered by the in-memory provider alone; a resolve of R in a process
\* whose map does not hold R is answered by the durable cache once the entry
\* exists, without any remote request.
C22_RemoteVersionBackfillsBothCaches ==
    \A i \in Instances :
        LET retrieves == RetrievesBy(i, Elements(VersionProviders))
            fetches == SelectSeq(Downloads(i),
                                 LAMBDA d : d.provider = VERSION_BUCKET)
        IN
        /\ \A r \in {request[i], previous[i]} :
               RemoteSuppliedVersion(r) =>
                   /\ r.key \in DOMAIN version_by_revision[i]
                   /\ version_by_revision[i][r.key] = r.ret
                   /\ get_bucket_path(r.key) \in DOMAIN local_bucket
        /\ (RemoteSuppliedVersion(previous[i]) /\ request[i].status # "idle")
               => /\ fetches = <<>>
                  /\ \A k \in 1..Len(retrieves) :
                         /\ retrieves[k].provider = LOCAL_MEMORY
                         /\ retrieves[k].params = previous[i].key
                         /\ retrieves[k].result = previous[i].ret
                  /\ (request[i].fn = GET_VERSION_FROM_REVISION
                         /\ request[i].status = "returned")
                         => /\ Len(retrieves) = 1
                            /\ request[i].winner = LOCAL_MEMORY
                            /\ request[i].ret = previous[i].ret
        /\ (request[i].fn = GET_VERSION_FROM_REVISION
               /\ request[i].status = "returned"
               /\ fetches # <<>>
               /\ fetches[1].result # None)
               => /\ Len(retrieves) = 2
                  /\ retrieves[1].result = CONTINUE_SEARCH
                  /\ retrieves[2].provider = VERSION_BUCKET
                  /\ request[i].winner = VERSION_BUCKET
                  /\ request[i].ret = fetches[1].result
                  /\ version_by_revision[i][request[i].key] = request[i].ret

\* A remote service supplied the version to one process, and a resolve of
\* the revision in the other process, whose map was empty, was answered by
\* the durable cache with that version.
C22_Witness ==
    \E i, j \in Instances :
        /\ i # j
        /\ RemoteSuppliedVersion(request[i])
        /\ request[j].fn = GET_VERSION_FROM_REVISION
        /\ request[j].status = "returned"
        /\ request[j].winner = VERSION_BUCKET
        /\ request[j].ret = request[i].ret
        /\ RetrievesBy(j, {CHROMIUM_DASH, CHROMIUM_REPOSITORY}) = <<>>
        /\ version_by_revision[i][request[i].key] = request[i].ret

\* The record of the last direct call when it is a call of the function
DirectCalls(i, function) ==
    SelectSeq(log[i], LAMBDA c : c.op = function)

\* C23: for every valid version a.b.c.p, get_blobnames of
\* ChromeUnsignedProvider returns exactly p + 1 paths: the artifact path of
\* a.b.c.p, a.b.c.(p-1), ..., a.b.c.0 in this order, the first three
\* components unchanged; for p = 0 it is the one path of the version.
C23_BlobnamesCountDownThePatch ==
    \A i \in Instances :
    \A k \in 1..Len(DirectCalls(i, "get_blobnames")) :
        LET c == DirectCalls(i, "get_blobnames")[k] IN
        \E a \in {1, 9, 100}, b \in {0, 12}, d \in {1, 12},
           p \in 0..(MaxPatch + 7) :
            LET prefix == ToString(a) \o "." \o ToString(b) \o "."
                              \o ToString(d) \o "."
            IN c.params = prefix \o ToString(p)
                      /\ Len(c.blobnames) = p + 1
                      /\ \A n \in 1..(p + 1) :
                             c.blobnames[n] =
                                 CHROME_UNSIGNED_ARTIFACT_PATH(
                                     prefix \o ToString(p + 1 - n))
                      /\ p = 0 => c.blobnames =
                                      <<CHROME_UNSIGNED_ARTIFACT_PATH(
                                            c.params)>>

\* get_blobnames has been called with 9.0.12.3 and has returned the four
\* paths of 9.0.12.3 down to 9.0.12.0.
C23_Witness ==
    \E i \in Instances :
        /\ Len(DirectCalls(i, "get_blobnames")) = 1
        /\ DirectCalls(i, "get_blobnames")[1].params = "9.0.12.3"
        /\ DirectCalls(i, "get_blobnames")[1].blobnames =
               <<CHROME_UNSIGNED_ARTIFACT_PATH("9.0.12.3"),
                 CHROME_UNSIGNED_ARTIFACT_PATH("9.0.12.2"),
                 CHROME_UNSIGNED_ARTIFACT_PATH("9.0.12.1"),
                 CHROME_UNSIGNED_ARTIFACT_PATH("9.0.12.0")>>

\* C24: is_valid_revision(r, n) is true exactly when r consists of exactly n
\* characters, all of them in 0-9 or a-f; a string of another length or with
\* another character (upper case, a trailing newline, any other) is
\* rejected.
C24_RevisionIsExactlyNHexCharacters ==
    \A i \in Instances :
    \A k \in 1..Len(DirectCalls(i, "is_valid_revision")) :
        LET c == DirectCalls(i, "is_valid_revision")[k] IN
        c.result = IF /\ Len(c.params) = c.length
                      /\ \A n \in 1..Len(c.params) :
                             SubSeq(c.params, n, n) \in HEX_DIGITS
                   THEN "True" ELSE "False"

\* A decimal integer written without a leading zero
IsDecimalInteger(s) ==
    /\ Len(s) > 0
    /\ \A n \in 1..Len(s) : SubSeq(s, n, n) \in DIGITS
    /\ Len(s) > 1 => SubSeq(s, 1, 1) # "0"

\* Four dot-separated decimal integers, the first and the third positive
IsFourIntegers(v) ==
    LET dots == {n \in 1..Len(v) : SubSeq(v, n, n) = "."} IN
    /\ Cardinality(dots) = 3
    /\ \E d1, d2, d3 \in dots :
           /\ d1 < d2 /\ d2 < d3
           /\ IsDecimalInteger(SubSeq(v, 1, d1 - 1))
           /\ IsDecimalInteger(SubSeq(v, d1 + 1, d2 - 1))
           /\ IsDecimalInteger(SubSeq(v, d2 + 1, d3 - 1))
           /\ IsDecimalInteger(SubSeq(v, d3 + 1, Len(v)))
           /\ SubSeq(v, 1, d1 - 1) # "0"
           /\ SubSeq(v, d2 + 1, d3 - 1) # "0"

\* C25: is_valid_version(v) returns true exactly when v is four
\* dot-separated decimal integers, the first and the third strictly positive
\* and none written with a leading zero, and it returns false for every
\* other string.
C25_VersionIsFourIntegersOrFalse ==
    \A i \in Instances :
    \A k \in 1..Len(DirectCalls(i, "is_valid_version")) :
        LET c == DirectCalls(i, "is_valid_version")[k] IN
        c.result = IF IsFourIntegers(c.params) THEN "True" ELSE "False"

\* C26: is_valid_version and is_valid_revision are total and pure: for every
\* string, one with an empty component such as 1..1. included, they return a
\* boolean without raising, and a call leaves the providers' and the
\* bucket's state as it is.
C26_ValidationsReturnABoolean ==
    \A i \in Instances :
        LET validations == SelectSeq(log[i],
                                     LAMBDA c : c.op \in {"is_valid_version",
                                                          "is_valid_revision"})
        IN validations # <<>>
               => /\ \A k \in 1..Len(validations) :
                         validations[k].result \in {"True", "False"}
                  /\ DOMAIN local_bucket = {}
                  /\ \A j \in Instances :
                         DOMAIN version_by_revision[j] = {}

\* The version that get_version_from_revision has returned to the provider
\* whose retrieve is the k-th record of the log: the answer of the last
\* version provider asked before, None without one
ResolvedVersionBefore(i, k) ==
    LET asked == SelectSeq(SubSeq(log[i], 1, k - 1),
                           LAMBDA c : /\ c.op = "retrieve"
                                      /\ c.provider
                                             \in Elements(VersionProviders))
    IN IF asked = <<>> THEN None
       ELSE IF asked[Len(asked)].result \in {CONTINUE_SEARCH, DOES_NOT_EXIST}
       THEN None
       ELSE asked[Len(asked)].result

\* The provider does not accept what its retrieve, the k-th record of the
\* log, was called with: the revision is not 6 hex characters, the version
\* is not valid, or the revision has no version or one whose major version
\* is not in the range of the archive provider.
NotAccepted(i, k) ==
    LET c == log[i][k]
        version == ResolvedVersionBefore(i, k)
        legacy == \E major \in 1..LAST_LEGACY_MAJOR :
                      StartsWith(version, ToString(major) \o ".")
    IN \/ /\ c.provider = LEGACY_SHORT_REVISION
          /\ ~(/\ Len(c.params[1]) = SHORT_REVISION_LENGTH
               /\ \A n \in 1..Len(c.params[1]) :
                      SubSeq(c.params[1], n, n) \in HEX_DIGITS)
       \/ /\ c.provider = LEGACY_STATIC_VERSION
          /\ ~IsFourIntegers(c.params[1])
       \/ /\ c.provider \in ChromeUnsignedProviders
          /\ version = None \/ legacy
       \/ /\ c.provider = LEGACY_LONG_REVISION
          /\ version = None \/ ~legacy

\* C27: a validating provider handed an input it does not accept returns
\* ContinueSearch before any access of its own to the object store: the
\* short-revision provider for a revision that is not 6 hex characters, the
\* version-pointer provider for an invalid version, and every archive
\* provider for a revision without a resolvable version or with a major
\* version outside its range.
C27_UnacceptedInputContinuesWithoutStorage ==
    \A i \in Instances :
    \A k \in 1..Len(log[i]) :
        (log[i][k].op = "retrieve" /\ NotAccepted(i, k))
            => /\ log[i][k].result = CONTINUE_SEARCH
               /\ \A m \in 1..Len(log[i]) :
                      log[i][m].op \in {"download", "upload"}
                          => log[i][m].provider # log[i][k].provider

\* Instance i resolves an artifact for a revision of 6 hex characters.
ShortRevisionResolve(i) ==
    /\ request[i].fn = GET_FILE_FROM_REVISION
    /\ request[i].status # "idle"
    /\ Len(request[i].key) = SHORT_REVISION_LENGTH
    /\ \A n \in 1..Len(request[i].key) :
           SubSeq(request[i].key, n, n) \in HEX_DIGITS

\* C28: resolving an artifact for a revision of 6 hex characters never
\* drives the version resolution chain: no version provider's retrieve or
\* process_response is called, and the in-memory version map and the
\* durable version cache are unchanged by the resolve.
C28_ShortRevisionBypassesVersionChain ==
    \A i \in Instances :
        ShortRevisionResolve(i)
            => /\ \A k \in 1..Len(log[i]) :
                      log[i][k].provider \notin Elements(VersionProviders)
               /\ versions_pl[i] = NoFrame
               /\ DOMAIN version_by_revision[i] = {}
               /\ \A revision \in Revisions :
                      get_bucket_path(revision) \notin DOMAIN local_bucket

\* The artifact of a 6-character revision has been found by the
\* short-revision provider and returned, the archive providers before it
\* having continued.
C28_Witness ==
    \E i \in Instances :
        /\ ShortRevisionResolve(i)
        /\ request[i].status = "returned"
        /\ request[i].winner = LEGACY_SHORT_REVISION
        /\ request[i].ret \notin {None, ""}
        /\ Len(RetrievesBy(i, ChromeUnsignedProviders
                                  \cup {LEGACY_LONG_REVISION})) = 2
        /\ Uploads(i) # <<>>

\* The requests of a state: the current and the previous one of each
\* instance
RequestsMade == {request[i] : i \in Instances} \cup
                    {previous[i] : i \in Instances}

\* The version up to and with its last dot: a.b.c. of a.b.c.p
BuildOf(version) ==
    LET dots == {n \in 1..Len(version) : SubSeq(version, n, n) = "."}
    IN SubSeq(version, 1, CHOOSE d \in dots : \A m \in dots : m <= d)

\* C29: for every valid version a.b.c.p the version-pointer provider reads
\* the pointer object vers/a.b.c.0 and no other pointer, so two requests
\* that differ in the patch component only and name the same file get the
\* same outcome; a version without such a pointer yields ContinueSearch.
C29_VersionPointerIgnoresThePatch ==
    /\ \A i \in Instances :
           (request[i].fn = GET_FILE_FROM_VERSION
               /\ IsFourIntegers(request[i].key))
               => LET pointers ==
                          SelectSeq(Downloads(i),
                                    LAMBDA d : StartsWith(d.params, "vers/"))
                      retrieves == RetrievesBy(i, {LEGACY_STATIC_VERSION})
                  IN /\ \A k \in 1..Len(pointers) :
                            /\ pointers[k].provider = LEGACY_STATIC_VERSION
                            /\ pointers[k].params =
                                   "vers/" \o BuildOf(request[i].key) \o "0"
                     /\ Len(pointers) <= 1
                     /\ retrieves # <<>>
                            => /\ Len(pointers) = 1
                               /\ pointers[1].result = None
                                      => retrieves[1].result = CONTINUE_SEARCH
    /\ \A r, s \in RequestsMade :
           (/\ r.fn = GET_FILE_FROM_VERSION /\ s.fn = GET_FILE_FROM_VERSION
            /\ r.status = "returned" /\ s.status = "returned"
            /\ IsFourIntegers(r.key) /\ IsFourIntegers(s.key)
            /\ BuildOf(r.key) = BuildOf(s.key)
            /\ r.filename = s.filename)
               => r.ret = s.ret /\ r.winner = s.winner

\* Two requests for the same file of 99.0.1.3 and 99.0.1.0 have returned the
\* same content, each after reading vers/99.0.1.0.
C29_Witness ==
    \E i, j \in Instances :
        /\ i # j
        /\ request[i].fn = GET_FILE_FROM_VERSION
        /\ request[j].fn = GET_FILE_FROM_VERSION
        /\ request[i].key = "99.0.1.3" /\ request[j].key = "99.0.1.0"
        /\ request[i].status = "returned" /\ request[j].status = "returned"
        /\ request[i].ret = request[j].ret
        /\ request[i].ret \notin {None, ""}
        /\ \E k \in 1..Len(Downloads(i)) :
               Downloads(i)[k].params = "vers/99.0.1.0"

(***************************************************************************)
(* Claims about the memoized pipelines, checked under SpecSingletons.      *)
(***************************************************************************)
\* The keys of the pipelines: the version-resolution pipeline, the one per
\* project, and the version-keyed one
SingletonKeys ==
    {"versions", "version"} \cup {"revision__" \o project : project \in Project}

\* C30: within one process at most one pipeline instance is ever
\* constructed per key (one per project, one version-keyed, one for the
\* version resolution), also when the first requests arrive concurrently,
\* and every call of get_revision_pipeline, get_version_pipeline or
\* get_pipeline returns that same instance with an unchanged provider list,
\* so that no in-memory version map is lost or duplicated.
C30_OnePipelinePerKey ==
    \A key \in SingletonKeys :
        /\ Cardinality({n \in 1..Len(constructed) :
                            constructed[n].key = key}) <= 1
        /\ \A m, n \in 1..Len(returned) :
               (returned[m].key = key /\ returned[n].key = key)
                   => /\ returned[m].pipeline = returned[n].pipeline
                      /\ constructed[returned[m].pipeline].key = key

(***************************************************************************)
(* Claims about the archive providers, the tables of content and the       *)
(* caches                                                                  *)
(***************************************************************************)
\* C31: extract_from_zip_blob decides on the first candidate that is
\* fetchable or has a cached table of content: the candidates before it were
\* fetched in vain, and if it lacks the requested path the result is
\* DoesNotExist and no later candidate is fetched, even when a later
\* candidate archive contains the file.
C31_FirstDecisiveCandidateDecides ==
    [][\A i \in Instances :
           (ExtractReturns(i) /\ zip[i].blobnames # <<>>
               /\ log'[i][Len(log'[i])].result # CONTINUE_SEARCH
               /\ ~IsRaise(log'[i][Len(log'[i])].result))
               => LET self == files_pl[i].active_provider
                      filename == files_pl[i].params[2]
                      k == zip[i].k
                      blobname == zip[i].blobnames[k]
                      lacks == IF zip[i].pc = "extract"
                               THEN CachedTocLacksPath(self, blobname,
                                                       filename)
                               ELSE ArchiveLacksPath(self, blobname, filename)
                      fetches ==
                          SelectSeq(log'[i],
                                    LAMBDA c : /\ c.op = "download"
                                               /\ c.provider = self
                                               /\ c.bucket
                                                      = get_bucketname(self)
                                               /\ c.params \in
                                                      Elements(
                                                          zip[i].blobnames))
                  IN /\ Len(fetches) \in {k - 1, k}
                     /\ \A m \in 1..Len(fetches) :
                            /\ fetches[m].params = zip[i].blobnames[m]
                            /\ m < k => fetches[m].result = None
                     /\ \A m \in 1..(k - 1) :
                            download_blob(
                                local_bucket,
                                get_zip_toc_path(self, zip[i].blobnames[m]))
                                = None
                     /\ lacks => log'[i][Len(log'[i])].result
                                     = DOES_NOT_EXIST]_vars

\* The version of the revision is 100.0.1.1, so the candidates are the
\* archives of 100.0.1.1 and 100.0.1.0; the first lacks empty.js, which the
\* second contains: the resolve has ended with DoesNotExist at the archive
\* provider and the second archive was not fetched.
C31_Witness ==
    \E i \in Instances :
        /\ request[i].fn = GET_FILE_FROM_REVISION
        /\ request[i].filename = EMPTY_FILE
        /\ request[i].project = DEVTOOLS_FRONTEND
        /\ request[i].status = "returned"
        /\ request[i].ret = None
        /\ request[i].winner = CHROME_UNSIGNED_FRONTEND
        /\ Len(RetrievesBy(i, {CHROMIUM_DASH})) = 1
        /\ RetrievesBy(i, {CHROMIUM_DASH})[1].result = "100.0.1.1"
        /\ \E k \in 1..Len(Downloads(i)) :
               /\ Downloads(i)[k].params
                      = CHROME_UNSIGNED_ARTIFACT_PATH("100.0.1.1")
               /\ Downloads(i)[k].result # None
        /\ \A k \in 1..Len(Downloads(i)) :
               Downloads(i)[k].params
                   # CHROME_UNSIGNED_ARTIFACT_PATH("100.0.1.0")

\* The paths of the entries of the archive that are no directories
EntryPaths(archive) ==
    {ZipFile_infolist(archive)[n].orig_filename :
        n \in {m \in 1..Len(ZipFile_infolist(archive)) :
                   ~ZipFile_infolist(archive)[m].is_dir}}

\* The lines of a table of content
TocLines(toc) ==
    LET ends == {n \in 1..Len(toc) : SubSeq(toc, n, n) = "\n"}
    IN {SubSeq(toc, IF \E e \in ends : e < n
                    THEN 1 + CHOOSE e \in ends :
                                 /\ e < n
                                 /\ \A f \in ends : f < n => f <= e
                    ELSE 1,
               n - 1) : n \in ends}

\* What is_any_file_in_zip has to report for a table of content of the
\* archive: the first candidate path of the file that the archive contains
ExpectedLookup(self, archive, filename) ==
    LET paths == zip_candidate_paths(self, filename)
        found == {n \in 1..Len(paths) : paths[n] \in EntryPaths(archive)}
    IN [toc_exists |-> TRUE,
        path |-> IF found = {} THEN None
                 ELSE paths[CHOOSE n \in found : \A m \in found : n <= m]]

\* C32: when extract_from_zip_blob fetches an archive that has no cached
\* table of content, it persists under tocs/<bucket>/<blob> a table listing
\* exactly the paths of the archive's entries that are no directories, and
\* a later is_any_file_in_zip on the blob reports (True, p) for the first
\* candidate path p that the archive contains and (True, None) when it
\* contains none; for a blob without table of content it reports
\* (False, None).
C32_TocRoundTrip ==
    /\ \A i \in Instances : \A k \in 1..Len(log[i]) :
           LET c == log[i][k] IN
           /\ (c.op = "download" /\ c.provider \in ZipProviders
                  /\ c.bucket = LOCAL_BUCKET /\ c.result = None
                  /\ k + 2 <= Len(log[i])
                  /\ log[i][k + 1].op = "download"
                  /\ log[i][k + 1].result # None)
                  => /\ log[i][k + 2].op = "upload"
                     /\ log[i][k + 2].provider = c.provider
                     /\ log[i][k + 2].params = c.params
           /\ (c.op = "upload" /\ c.provider \in ZipProviders)
                  => LET fetch == log[i][k - 1]
                     IN /\ fetch.op = "download"
                        /\ fetch.provider = c.provider
                        /\ fetch.bucket = get_bucketname(c.provider)
                        /\ c.params = "tocs/" \o fetch.bucket \o "/"
                                          \o fetch.params
                        /\ TocLines(c.content) = EntryPaths(fetch.result)
                        /\ Len(c.content) > 0
                               => SubSeq(c.content, Len(c.content),
                                         Len(c.content)) = "\n"
                        /\ c.params \in DOMAIN local_bucket
                        /\ \A filename \in Filenames :
                               is_any_file_in_zip(local_bucket, c.provider,
                                                  fetch.params,
                                                  zip_candidate_paths(
                                                      c.provider, filename))
                                   = ExpectedLookup(c.provider, fetch.result,
                                                    filename)
    /\ \A self \in ZipProviders :
       \A blobname \in DOMAIN RemoteBucket(get_bucketname(self))
                           \cup {"missing.zip"} :
           ("tocs/" \o get_bucketname(self) \o "/" \o blobname)
                   \notin DOMAIN local_bucket
               => \A filename \in Filenames :
                      is_any_file_in_zip(local_bucket, self, blobname,
                                         zip_candidate_paths(self, filename))
                          = [toc_exists |-> FALSE, path |-> None]

\* The archive of 100.0.1.1 was fetched without a table of content, the
\* table was created with the two files of the archive and without its
\* directory, and the lookup of a.js finds the path of the frontend.
C32_Witness ==
    \E i \in Instances : \E k \in 1..Len(log[i]) :
        /\ log[i][k].op = "upload"
        /\ log[i][k].provider = CHROME_UNSIGNED_FRONTEND
        /\ log[i][k].result = "created"
        /\ log[i][k - 1].params = CHROME_UNSIGNED_ARTIFACT_PATH("100.0.1.1")
        /\ Cardinality(TocLines(log[i][k].content)) = 2
        /\ is_any_file_in_zip(local_bucket, CHROME_UNSIGNED_FRONTEND,
                              log[i][k - 1].params,
                              zip_candidate_paths(CHROME_UNSIGNED_FRONTEND,
                                                  FILE_A)).path
               = CHROME_UNSIGNED_DT_FRONTEND_ZIP_BASE_DIRS[1] \o FILE_A
        /\ request[i].status = "returned"

\* The lines of the manifest meta/@<revision> that name the file: a line is
\* <hash>:<filename>
ManifestLinesOf(revision, name) ==
    LET meta_blob == RemoteBucket(LEGACY_BUCKET)[LEGACY_M99_META_PATH(revision)]
        lines == split(strip(meta_blob, {"\n"}), "\n")
    IN {n \in 1..Len(lines) :
            \E h \in 1..Len(lines[n]) :
                /\ Char(lines[n], h) = ":"
                /\ \A m \in 1..(h - 1) : Char(lines[n], m) # ":"
                /\ SubSeq(lines[n], h + 1, Len(lines[n])) = name}

\* The hash on the first line of the manifest that names the file
FirstManifestHash(revision, name) ==
    LET meta_blob == RemoteBucket(LEGACY_BUCKET)[LEGACY_M99_META_PATH(revision)]
        lines == split(strip(meta_blob, {"\n"}), "\n")
        first == CHOOSE n \in ManifestLinesOf(revision, name) :
                     \A m \in ManifestLinesOf(revision, name) : n <= m
    IN SubSeq(lines[first], 1, Len(lines[first]) - Len(name) - 1)

\* C33: LegacyM99FilesProvider.retrieve returns the bytes of hash/<h>, where
\* h is the hash on the first line of the manifest meta/@<revision> whose
\* filename equals the requested name, and returns ContinueSearch when the
\* manifest or the hash object is missing; it validates no revision and
\* looks up no version: its only accesses are the downloads of the manifest
\* and of the hash object, also for a revision that is none.
C33_HashStoreServesFirstManifestLine ==
    \A i \in Instances : \A k \in 1..Len(log[i]) :
        LET c == log[i][k]
            legacy == RemoteBucket(LEGACY_BUCKET)
            meta == LEGACY_M99_META_PATH(c.params[1])
            listed == meta \in DOMAIN legacy
                          /\ ManifestLinesOf(c.params[1], c.params[2]) # {}
            hash == LEGACY_M99_HASH_PATH(
                        FirstManifestHash(c.params[1], c.params[2]))
            \* the accesses of the call: one download, or two
            n == IF listed THEN 2 ELSE 1
        IN (c.op = "retrieve" /\ c.provider = LEGACY_FILES)
               => /\ meta \notin DOMAIN legacy => c.result = CONTINUE_SEARCH
                  /\ (listed /\ hash \notin DOMAIN legacy)
                         => c.result = CONTINUE_SEARCH
                  /\ (listed /\ hash \in DOMAIN legacy)
                         => c.result = legacy[hash]
                  /\ k > n + 1
                  /\ log[i][k - n].op = "download"
                  /\ log[i][k - n].provider = LEGACY_FILES
                  /\ log[i][k - n].bucket = LEGACY_BUCKET
                  /\ log[i][k - n].params = meta
                  /\ listed => /\ log[i][k - 1].op = "download"
                               /\ log[i][k - 1].provider = LEGACY_FILES
                               /\ log[i][k - 1].bucket = LEGACY_BUCKET
                               /\ log[i][k - 1].params = hash
                  /\ log[i][k - n - 1].op = "retrieve"
                  /\ log[i][k - n - 1].provider = LEGACY_SHORT_REVISION
                  /\ log[i][k - n - 1].idx = c.idx - 1

\* The hash-store provider has served a.js of a revision whose manifest
\* names a.js on its second and on its fourth line, from the hash of the
\* second.
C33_Witness ==
    /\ ManifestLinesOf(REVISION_2, FILE_A) = {2, 4}
    /\ \E i \in Instances :
           /\ request[i].status = "returned"
           /\ request[i].key = REVISION_2
           /\ request[i].filename = FILE_A
           /\ request[i].winner = LEGACY_FILES
           /\ request[i].ret = RemoteBucket(LEGACY_BUCKET)[
                                   LEGACY_M99_HASH_PATH("220bcaa9")]

\* The providers of the pipeline that serves the request
ProvidersOf(r) ==
    IF r.fn = GET_VERSION_FROM_REVISION THEN VersionProviders
    ELSE IF r.fn = GET_FILE_FROM_REVISION THEN RevisionProviders(r.project)
    ELSE StaticVersionProviders

\* The calls of retrieve and of process_response on the providers
PipelineCalls(records, providers) ==
    SelectSeq(records,
              LAMBDA c : /\ c.op \in {"retrieve", "process_response"}
                         /\ c.provider \in Elements(providers))

\* The calls of one Pipeline.retrieve: r calls of retrieve on the providers
\* 0..r-1, r at most the number of providers, followed by at most r calls
\* of process_response, on the providers r-1 down to 0
RetrievesThenProcesses(pipeline_calls, providers, r) ==
    /\ r <= Len(providers)
    /\ r <= Len(pipeline_calls)
    /\ Len(pipeline_calls) <= 2 * r
    /\ \A k \in 1..Len(pipeline_calls) :
           IF k <= r
           THEN /\ pipeline_calls[k].op = "retrieve"
                /\ pipeline_calls[k].idx = k - 1
                /\ pipeline_calls[k].provider = providers[k]
           ELSE /\ pipeline_calls[k].op = "process_response"
                /\ pipeline_calls[k].idx = 2 * r - k
                /\ pipeline_calls[k].provider = providers[2 * r - k + 1]

\* The resolve has made its calls and has returned: the reverse pass is
\* complete.
CompleteResolve(pipeline_calls, providers) ==
    \E r \in 0..Len(providers) :
        /\ RetrievesThenProcesses(pipeline_calls, providers, r)
        /\ Len(pipeline_calls) = 2 * r

\* The records of the log of instance i between the retrieve of an archive
\* provider at k and the call of the pipeline before it
RecordsOfRetrieve(i, k) ==
    LET before == {m \in 1..(k - 1) :
                       /\ log[i][m].op = "retrieve"
                       /\ log[i][m].provider
                              \in Elements(ProvidersOf(request[i]))}
        from == IF before = {} THEN 0
                ELSE CHOOSE m \in before : \A n \in before : n <= m
    IN SubSeq(log[i], from + 1, k - 1)

\* C34: every Pipeline.retrieve over n providers whose provider calls each
\* return terminates after at most n calls of retrieve followed by at most
\* n calls of process_response; a version resolve nested in the retrieve of
\* an archive provider completes, its cache-fill pass included, before that
\* retrieve returns.
C34_ResolvesTerminate ==
    /\ [](\A i \in Instances :
              LET r == request[i]
                  own == PipelineCalls(log[i], ProvidersOf(r))
              IN r.status # "idle" =>
                  /\ \E n \in 0..Len(ProvidersOf(r)) :
                         RetrievesThenProcesses(own, ProvidersOf(r), n)
                  /\ r.status = "returned"
                         => CompleteResolve(own, ProvidersOf(r))
                  /\ \A k \in 1..Len(log[i]) :
                         (/\ r.fn = GET_FILE_FROM_REVISION
                          /\ log[i][k].op = "retrieve"
                          /\ log[i][k].provider \in ZipProviders)
                             => CompleteResolve(
                                    PipelineCalls(RecordsOfRetrieve(i, k),
                                                  VersionProviders),
                                    VersionProviders)
                  /\ (r.fn # GET_VERSION_FROM_REVISION
                          /\ versions_pl[i].pc # "idle")
                         => /\ zip[i].pc = "version"
                            /\ files_pl[i].pc = "loop"
                            /\ files_pl[i].active_provider \in ZipProviders)
    /\ \A i \in Instances :
           (request[i].status = "running")
               ~> (request[i].status \in {"returned", "raised"})

\* An archive provider has returned after a nested version resolve of four
\* calls of retrieve and four of process_response, and the request has
\* returned after the calls of its own pipeline.
C34_Witness ==
    \E i \in Instances : \E k \in 1..Len(log[i]) :
        /\ request[i].fn = GET_FILE_FROM_REVISION
        /\ request[i].status = "returned"
        /\ log[i][k].op = "retrieve"
        /\ log[i][k].provider = CHROME_UNSIGNED_FRONTEND
        /\ Len(PipelineCalls(RecordsOfRetrieve(i, k), VersionProviders)) = 8
        /\ Len(PipelineCalls(log[i], ProvidersOf(request[i]))) = 4

\* The key of the durable artifact cache that the request's pipeline
\* computes for it
CacheKeyOf(r) ==
    get_local_path(IF r.project = DEVTOOLS_INTERNAL THEN DEVTOOLS_INTERNAL
                   ELSE None,
                   r.key, r.filename)

\* A record of the log is the read of an object of the durable artifact
\* cache, or the write of one.
ReadsArtifact(c) ==
    c.op = "download" /\ c.provider \in FileBucketProviders
        /\ c.result # None
WritesArtifact(c) ==
    c.op = "upload" /\ c.provider \in FileBucketProviders
        /\ c.result = "created"

\* C35: for all revision and filename strings a request may carry, a
\* resolve of one project never reads an object of the durable cache that
\* the pipeline of the other project has written, and the cache key of a
\* request of one project never equals the cache key of a request of the
\* other project.
C35_ProjectsShareNoCacheObject ==
    \A i, j \in Instances :
        /\ (/\ request[i].fn = GET_FILE_FROM_REVISION
            /\ request[j].fn = GET_FILE_FROM_REVISION
            /\ request[i].project # request[j].project)
               => CacheKeyOf(request[i]) # CacheKeyOf(request[j])
        /\ \A k \in 1..Len(log[i]), m \in 1..Len(log[j]) :
               (/\ ReadsArtifact(log[i][k])
                /\ WritesArtifact(log[j][m])
                /\ log[i][k].params = log[j][m].params)
                   => log[i][k].provider = log[j][m].provider

\* C36, as stated: under any interleaving of version resolves by several
\* instances, whenever the in-memory map of an instance holds a version for
\* revision R and the durable version cache holds an entry for R, the two
\* values are equal, also when the remote services report different
\* versions for R.
C36_MapEqualsDurableCache ==
    \A i \in Instances : \A revision \in DOMAIN version_by_revision[i] :
        (/\ version_by_revision[i][revision] # None
         /\ get_bucket_path(revision) \in DOMAIN local_bucket)
            => version_by_revision[i][revision]
                   = local_bucket[get_bucket_path(revision)]

\* The conditional create of the version cache entry by instance i, with
\* this version, was discarded in the log: another instance had created it.
DiscardedVersionUpload(records, revision, version) ==
    \E k \in 1..Len(records) :
        /\ records[k].op = "upload"
        /\ records[k].provider = VERSION_BUCKET
        /\ records[k].params = get_bucket_path(revision)
        /\ records[k].content = version
        /\ records[k].result = "discarded"

\* C36, amended: a version in the in-memory map of an instance has an entry
\* in the durable version cache, and neither of the two ever changes; the
\* two are equal unless the instance resolved the version from a remote
\* service and its conditional create was discarded, another instance
\* having created the entry first: then the map keeps the version that the
\* instance resolved itself.
C36_MapEqualsCacheUnlessDiscarded ==
    [][\A i \in Instances : \A revision \in DOMAIN version_by_revision'[i] :
           LET version == version_by_revision'[i][revision]
               path == get_bucket_path(revision)
           IN /\ revision \in DOMAIN version_by_revision[i]
                     => version = version_by_revision[i][revision]
              /\ version # None => path \in DOMAIN local_bucket'
              /\ path \in DOMAIN local_bucket
                     => local_bucket'[path] = local_bucket[path]
              /\ (/\ revision \notin DOMAIN version_by_revision[i]
                  /\ version # None
                  /\ version # local_bucket'[path])
                     => DiscardedVersionUpload(log'[i], revision, version)
      ]_vars

\* Both instances have resolved the revision from a remote service; the
\* map of one holds 100.0.1.1 and the durable cache the 100.0.1.0 of the
\* other, whose map agrees with the cache.
C36_Witness ==
    \E i, j \in Instances :
        /\ REVISION_100 \in DOMAIN version_by_revision[i]
        /\ REVISION_100 \in DOMAIN version_by_revision[j]
        /\ version_by_revision[i][REVISION_100] = "100.0.1.1"
        /\ version_by_revision[j][REVISION_100] = "100.0.1.0"
        /\ get_bucket_path(REVISION_100) \in DOMAIN local_bucket
        /\ local_bucket[get_bucket_path(REVISION_100)] = "100.0.1.0"
        /\ DiscardedVersionUpload(log[i], REVISION_100, "100.0.1.1")
        /\ request[i].status = "returned"
        /\ request[j].status = "returned"

\* The values that the claim is about: what a provider of the version
\* pipeline or the pipeline itself has answered in a request at hand, what
\* the in-memory maps hold, and what the durable version cache holds; None
\* and the markers left out
VersionsAtHand ==
    UNION {{log[i][k].result : k \in {n \in 1..Len(log[i]) :
                                 /\ log[i][n].op = "retrieve"
                                 /\ log[i][n].provider
                                        \in Elements(VersionProviders)}}
              \cup {version_by_revision[i][revision] :
                        revision \in DOMAIN version_by_revision[i]} :
           i \in Instances}
        \cup {request[i].ret :
                  i \in {n \in Instances :
                             /\ request[n].fn = GET_VERSION_FROM_REVISION
                             /\ request[n].status = "returned"}}
        \cup {local_bucket[path] :
                  path \in {n \in DOMAIN local_bucket :
                                StartsWith(n, get_bucket_path(""))}}

\* A returned or stored version, as opposed to None, a marker or an
\* exception
IsVersionValue(v) ==
    v \notin {None, CONTINUE_SEARCH, DOES_NOT_EXIST} /\ ~IsRaise(v)

\* Four non-empty runs of decimal digits, joined by dots
IsFourNumbers(v) ==
    /\ Len(split(v, ".")) = 4
    /\ \A k \in 1..4 :
           Len(split(v, ".")[k]) > 0 /\ IsDigits(split(v, ".")[k])

\* C37, as stated: every non-absent value returned by
\* get_version_from_revision and every value stored in the in-memory map or
\* in the durable version cache is a string accepted by is_valid_version,
\* so that an archive provider can always take the integer major component
\* of the version it is given.
C37_VersionsAreValid ==
    \A v \in VersionsAtHand :
        IsVersionValue(v) => ~is_valid_version_raises(v) /\ is_valid_version(v)

\* C37, amended: every such value is four non-empty runs of decimal digits
\* joined by dots; the values that chromiumdash supplied are accepted by
\* is_valid_version, those made of the repository's VERSION file need not
\* be; an archive provider can always take the integer major component of
\* the version it is given.
C37_VersionsAreFourNumbers ==
    /\ \A v \in VersionsAtHand :
           IsVersionValue(v)
               => IsFourNumbers(v) /\ ~int_raises(split(v, ".")[1])
    /\ \A i \in Instances : \A k \in 1..Len(log[i]) :
           (/\ log[i][k].op = "retrieve"
            /\ log[i][k].provider = CHROMIUM_DASH
            /\ IsVersionValue(log[i][k].result))
               => is_valid_version(log[i][k].result)
    /\ \A i \in Instances :
           (request[i].fn = GET_FILE_FROM_REVISION
                /\ request[i].status = "raised")
               => request[i].ret # Raise("ValueError")

\* The repository has supplied 0.2.149.27, which is_valid_version rejects;
\* the map and the durable cache hold it, and the archive providers have
\* been given it and have continued.
C37_Witness ==
    \E i \in Instances :
        /\ request[i].fn = GET_FILE_FROM_REVISION
        /\ request[i].status = "returned"
        /\ request[i].key \in DOMAIN version_by_revision[i]
        /\ version_by_revision[i][request[i].key] = "0.2.149.27"
        /\ ~is_valid_version("0.2.149.27")
        /\ get_bucket_path(request[i].key) \in DOMAIN local_bucket
        /\ local_bucket[get_bucket_path(request[i].key)] = "0.2.149.27"
        /\ \E k \in 1..Len(log[i]) :
               /\ log[i][k].op = "retrieve"
               /\ log[i][k].provider = LEGACY_LONG_REVISION
               /\ log[i][k].result = CONTINUE_SEARCH

\* The buckets of the archives, and the archive that a table of content
\* under this name belongs to
ArchiveBuckets == {CHROME_UNSIGNED_BUCKET, LEGACY_BUCKET}
ArchivesOfToc(toc_path) ==
    {RemoteBucket(bucketname)[blobname] :
         bucketname \in {b \in ArchiveBuckets :
                             StartsWith(toc_path, "tocs/" \o b \o "/")},
         blobname \in {n \in UNION {DOMAIN RemoteBucket(b) :
                                        b \in ArchiveBuckets} :
                           EndsWith(toc_path, "/" \o n)}}

\* C38: in every reachable state, under any interleaving of the resolves of
\* several instances and with the archives immutable, a persisted table of
\* content for blob B lists exactly the entries of archive B that are no
\* directories, so that a DoesNotExist answered from a cached table of
\* content is never given for a path that the archive contains.
C38_PersistedTocListsTheArchive ==
    /\ \A toc_path \in {n \in DOMAIN local_bucket : StartsWith(n, "tocs/")} :
           /\ Cardinality(ArchivesOfToc(toc_path)) = 1
           /\ \A archive \in ArchivesOfToc(toc_path) :
                  TocLines(local_bucket[toc_path]) = EntryPaths(archive)
    /\ \A i \in Instances : \A k \in 2..Len(log[i]) :
           (/\ log[i][k].op = "retrieve"
            /\ log[i][k].provider \in ZipProviders
            /\ log[i][k].result = DOES_NOT_EXIST
            /\ log[i][k - 1].op = "download"
            /\ log[i][k - 1].bucket = LOCAL_BUCKET)
               => /\ log[i][k - 1].result # None
                  /\ \A archive \in ArchivesOfToc(log[i][k - 1].params) :
                     \A p \in Elements(zip_candidate_paths(
                                           log[i][k].provider,
                                           log[i][k].params[2])) :
                         p \notin EntryPaths(archive)

\* An archive provider has answered DoesNotExist from the table of content
\* that the other instance had persisted, without a fetch of the archive.
C38_Witness ==
    \E i, j \in Instances : \E k \in 2..Len(log[i]), m \in 1..Len(log[j]) :
        /\ i # j
        /\ log[i][k].op = "retrieve"
        /\ log[i][k].provider = CHROME_UNSIGNED_FRONTEND
        /\ log[i][k].result = DOES_NOT_EXIST
        /\ log[i][k - 1].op = "download"
        /\ log[i][k - 1].bucket = LOCAL_BUCKET
        /\ log[j][m].op = "upload"
        /\ log[j][m].result = "created"
        /\ log[j][m].params = log[i][k - 1].params
        /\ log[j][m].content = log[i][k - 1].result
        /\ \A n \in 1..Len(log[i]) :
               log[i][n].op = "download"
                   => log[i][n].bucket # CHROME_UNSIGNED_BUCKET

\* The bytes of a file, as opposed to None, a marker or an exception
IsContent(response) ==
    response \notin {None, CONTINUE_SEARCH, DOES_NOT_EXIST}
        /\ ~IsRaise(response)

\* Instance i serves a lookup by revision in which a provider after the
\* cache has returned these bytes for the revision and the file, and path
\* is extracted/<revision>[-suffix]/<filename> with the suffix of the
\* project of the lookup.
FoundByLaterProvider(i, path, bytes) ==
    LET r == request[i]
        providers == RevisionProviders(r.project)
    IN /\ r.fn = GET_FILE_FROM_REVISION
       /\ r.status = "running"
       /\ path = "extracted/" \o r.key
                     \o (IF r.project = DEVTOOLS_INTERNAL
                         THEN "-" \o DEVTOOLS_INTERNAL ELSE "")
                     \o "/" \o r.filename
       /\ \E k \in 1..Len(log[i]) :
              /\ log[i][k].op = "retrieve"
              /\ log[i][k].idx > 0
              /\ log[i][k].idx < Len(providers)
              /\ log[i][k].provider = providers[log[i][k].idx + 1]
              /\ log[i][k].params = <<r.key, r.filename>>
              /\ log[i][k].result = bytes
              /\ IsContent(bytes)

\* C39: in every reachable state each object of the durable artifact cache
\* under extracted/<revision>[-suffix]/<filename> holds exactly the bytes
\* that a later provider of the same pipeline returned as found for the
\* revision and the file in some resolve; no entry is ever created from an
\* absent result or from a marker.  An object is created in a resolve that
\* found these bytes, and it is never changed.
C39_ArtifactCacheHoldsFoundBytes ==
    [][\A path \in {n \in DOMAIN local_bucket' :
                        StartsWith(n, "extracted/")} :
           IF path \in DOMAIN local_bucket
           THEN local_bucket'[path] = local_bucket[path]
           ELSE \E i \in Instances :
                    /\ FoundByLaterProvider(i, path, local_bucket'[path])
                    /\ log'[i][Len(log'[i])].op = "upload"
                    /\ log'[i][Len(log'[i])].result = "created"
                    /\ log'[i][Len(log'[i])].params = path
                    /\ log'[i][Len(log'[i])].provider
                           = RevisionProviders(request[i].project)[1]
      ]_vars

\* The cache holds the empty file that the short-revision provider found
\* in the archive, under the key of the lookup that has returned it.
C39_Witness ==
    \E i \in Instances :
        /\ request[i].fn = GET_FILE_FROM_REVISION
        /\ request[i].status = "returned"
        /\ request[i].key = REVISION_6D
        /\ request[i].filename = EMPTY_FILE
        /\ request[i].project = DEVTOOLS_FRONTEND
        /\ request[i].winner = LEGACY_SHORT_REVISION
        /\ request[i].ret = ""
        /\ ("extracted/" \o REVISION_6D \o "/" \o EMPTY_FILE)
               \in DOMAIN local_bucket
        /\ local_bucket["extracted/" \o REVISION_6D \o "/" \o EMPTY_FILE] = ""
        /\ \E k \in 1..Len(log[i]) :
               /\ log[i][k].op = "upload"
               /\ log[i][k].result = "created"
               /\ log[i][k].provider = FILE_BUCKET_FRONTEND

====
